---- MODULE Spec2Model ----
(***************************************************************************)
(* State-machine model of the MCP gateway: the process supervisor          *)
(* (process_monitor.py), the health aggregator (health_check.py) and the   *)
(* HTTP proxy with its command-upstream driver (mcp_proxy.py).             *)
(***************************************************************************)
EXTENDS Integers, Sequences, FiniteSets, TLC

(***************************************************************************)
(* Bounds of the model.                                                    *)
(***************************************************************************)
\* value given to the max_restarts argument of ProcessMonitor
max_restarts == 2
\* number of HTTP requests each proxy client issues
MaxReq == 2
\* milliseconds the clock may advance
MaxClock == 1
\* longest env value, in characters
MaxLen == 4
MaxSig == 2
MaxPieces == 2
\* /health requests that arrive before requests stop
MaxAsk == 2
\* calls of start_monitoring and stop_monitoring
MaxCalls == 5

(***************************************************************************)
(* Configuration: mcpServers in file order.                                *)
(***************************************************************************)
ServerOrder == <<"a", "b">>
ServerNames == {ServerOrder[i] : i \in DOMAIN ServerOrder}

VARIABLES
    \* ---- configuration shared by supervisor and health aggregator
    disabled,        \* names whose spec has "disabled": true
    \* ---- ProcessMonitor (process_monitor.py)
    processes,       \* self.processes: insertion-ordered dict name -> child
    restart_counts,  \* self.restart_counts: dict name -> count
    running,         \* self.running
    kids,            \* every child ever launched, indexed by pid
    givenUp,         \* names for which the loop logged "giving up"
    monPc,           \* position of the monitor thread
    monList,         \* rest of the loop's list(self.processes.items())
    mainPc,          \* position of the main thread (start .. shutdown)
    startList,       \* names start_processes has still to visit
    stopList,        \* rest of stop_processes' list(self.processes.items())
    stopSnap,        \* pids tracked when stop_processes was called
    graceful,        \* argument of stop_processes
    \* ---- HealthCheckServer (health_check.py)
    mcp_servers_status, \* self.mcp_servers_status: name -> probe result
    is_healthy,      \* self.is_healthy
    stale,           \* time.time() - self.last_check_time > self.check_interval
    swept,           \* a probe sweep has run to its end
    hpc,             \* position of each health request handler
    hres,            \* a handler's local "results"
    hoverall,        \* a handler's local "overall_healthy"
    hbody,           \* "status" field of the body a handler built
    hcode,           \* HTTP status a handler sent
    \* ---- MCPProxyServer / MCPServerManager (mcp_proxy.py)
    proxyPc,         \* "new" until start_servers is over, then "serving"
    servers,         \* self.servers: registered name -> type
    childAlive,      \* the command upstream's child process is running
    pin,             \* lines in the child's stdin pipe, oldest first
    pout,            \* lines the child wrote to stdout, not yet read
    serial,          \* number of envelopes written to the child so far
    cpc,             \* position of each HTTP handler thread
    creq,            \* the HTTP request a handler serves
    ccall,           \* what the handler did for its request
    cresp,           \* the HTTP response a handler sent
    cdone,           \* number of requests each client has completed
    \* ---- what the processes are started with
    now,             \* int(time.time() * 1000): the clock in milliseconds
    secrets,         \* per run: the secret value in the config's env / headers
    environ,         \* os.environ: names set in the process environment
    env_vars,        \* the "env" map of an upstream's spec
    child_env,       \* env handed to subprocess.Popen
    envPc,           \* "new" until an env has been composed, then by whom
    \* ---- the life of the proxy's main thread (MCPProxyServer.start)
    mainStack,       \* call frames of the main thread, innermost last
    shutdown_requested, \* self.shutdown_requested
    is_shut_down,    \* the event serve_forever sets when its loop is left
    listening,       \* the listening socket is open
    psigs,           \* signals stop_servers has sent to the command child
    sigCount,        \* signals delivered to the proxy so far
    \* ---- configuration documents
    config,          \* self.config of the health server: "loaded" or "none"
    fnArgs,          \* arguments a ConfigHandler method is called with
    fnResult,        \* what the method returned or raised
    fnPc,            \* "new", then "called" once the method has run
    \* ---- further threads and callers
    rd,              \* a handler thread inside get_process_status
    api,             \* a caller of start_monitoring / stop_monitoring
    hlife,           \* the health server's main thread (start .. shutdown)
    pstart           \* the proxy's start_servers loop

supVars == <<disabled, processes, restart_counts, running, kids, givenUp,
             monPc, monList, mainPc, startList, stopList, stopSnap, graceful>>

healthVars == <<mcp_servers_status, is_healthy, stale, swept, hpc, hres,
                hoverall, hbody, hcode>>

proxyVars == <<proxyPc, servers, childAlive, pin, pout, serial, cpc, creq,
               ccall, cresp, cdone>>

lifeVars == <<mainStack, shutdown_requested, is_shut_down, listening, psigs, sigCount>>

cfgVars == <<config, fnArgs, fnResult, fnPc>>

extVars == <<rd, api, hlife, pstart>>

hostVars ==
    <<now, secrets, environ, env_vars, child_env, envPc, lifeVars, cfgVars, extVars>>

vars == <<supVars, healthVars, proxyVars, hostVars>>

(***************************************************************************)
(* Python dict with insertion order, as a sequence of [name, pid] items.   *)
(***************************************************************************)
DictHas(d, n) == \E i \in DOMAIN d : d[i].name = n

DictPids(d) == {d[i].pid : i \in DOMAIN d}

DictSet(d, n, p) ==
    IF DictHas(d, n)
    THEN [i \in DOMAIN d |-> IF d[i].name = n THEN [name |-> n, pid |-> p] ELSE d[i]]
    ELSE Append(d, [name |-> n, pid |-> p])

DictDel(d, n) == SelectSeq(d, LAMBDA e : e.name # n)

EnabledOrder == SelectSeq(ServerOrder, LAMBDA n : n \notin disabled)

(***************************************************************************)
(* Children.                                                               *)
(***************************************************************************)
\* one launch: the two handles opened for it (closes counts how often they
\* were closed) and, when Popen succeeded, the child
NewKid(n, by) ==
    [name |-> n, by |-> by, started |-> TRUE, alive |-> TRUE, sigs |-> {},
     killedLive |-> FALSE, closes |-> 0]

\* a launch whose Popen raised: the handles are open, there is no child
FailedLaunch(n, by) == [NewKid(n, by) EXCEPT !.started = FALSE, !.alive = FALSE]

LivePids == {p \in DOMAIN kids : kids[p].alive}

Launches(n) == Cardinality({p \in DOMAIN kids : kids[p].name = n /\ kids[p].started})

LoopLaunches(n) ==
    Cardinality({p \in DOMAIN kids :
                    kids[p].name = n /\ kids[p].by = "loop" /\ kids[p].started})

\* a child process ends on its own (or in reaction to a terminate signal)
ChildExit(p) ==
    /\ p \in LivePids
    /\ kids' = [kids EXCEPT ![p].alive = FALSE]
    /\ UNCHANGED <<disabled, processes, restart_counts, running, givenUp, monPc,
                   monList, mainPc, startList, stopList, stopSnap, graceful>>

(***************************************************************************)
(* ProcessMonitor._start_process                                           *)
(***************************************************************************)
\* variant: the count is set to 0 on every start
CountAfterStartReset(counts, n) ==
    [m \in (DOMAIN counts) \cup {n} |-> IF m = n THEN 0 ELSE counts[m]]

\* "if server_name not in self.restart_counts: self.restart_counts[server_name] = 0"
CountAfterStart(counts, n) ==
    IF n \in DOMAIN counts THEN counts ELSE counts @@ (n :> 0)

\* the two handles are opened, then Popen runs.  ok: Popen succeeded and
\* the entry is stored; otherwise Popen raised, the function logs and
\* returns False: nothing is stored and the handles stay as they are
StartProcess(n, by, ok) ==
    IF ok
    THEN /\ kids' = Append(kids, NewKid(n, by))
         /\ processes' = DictSet(processes, n, Len(kids) + 1)
         /\ restart_counts' = CountAfterStart(restart_counts, n)
    ELSE /\ kids' = Append(kids, FailedLaunch(n, by))
         /\ UNCHANGED <<processes, restart_counts>>

(***************************************************************************)
(* Main thread: start_processes, start_monitoring                          *)
(***************************************************************************)
StartProcessesBegin ==
    /\ mainPc = "new"
    /\ mainPc' = "starting"
    /\ startList' = EnabledOrder
    /\ UNCHANGED <<disabled, processes, restart_counts, running, kids, givenUp,
                   monPc, monList, stopList, stopSnap, graceful>>

StartProcessesStep(ok) ==
    /\ mainPc = "starting"
    /\ startList # <<>>
    /\ StartProcess(Head(startList), "start", ok)
    /\ startList' = Tail(startList)
    /\ UNCHANGED <<disabled, running, givenUp, monPc, monList, mainPc,
                   stopList, stopSnap, graceful>>

StartMonitoring ==
    /\ mainPc = "starting"
    /\ startList = <<>>
    /\ running' = TRUE
    /\ monPc' = "while"
    /\ mainPc' = "run"
    /\ UNCHANGED <<disabled, processes, restart_counts, kids, givenUp, monList,
                   startList, stopList, stopSnap, graceful>>

(***************************************************************************)
(* Monitor thread: ProcessMonitor.monitor_processes                        *)
(***************************************************************************)
\* after one item of the for loop: next item, or the check-interval sleep
MonAdvance ==
    /\ monList' = Tail(monList)
    /\ monPc' = IF Tail(monList) = <<>> THEN "sleep" ELSE "poll"

\* "while self.running:" and the snapshot list(self.processes.items())
MonWhile ==
    /\ monPc = "while"
    /\ IF running
       THEN /\ monList' = processes
            /\ monPc' = IF processes = <<>> THEN "sleep" ELSE "poll"
       ELSE /\ monPc' = "exit"
            /\ UNCHANGED monList
    /\ UNCHANGED <<disabled, processes, restart_counts, running, kids, givenUp,
                   mainPc, startList, stopList, stopSnap, graceful>>

\* "if process.poll() is not None"
MonPoll ==
    /\ monPc = "poll"
    /\ IF kids[Head(monList).pid].alive
       THEN MonAdvance
       ELSE /\ monPc' = "exited"
            /\ UNCHANGED monList
    /\ UNCHANGED <<disabled, processes, restart_counts, running, kids, givenUp,
                   mainPc, startList, stopList, stopSnap, graceful>>

\* variant: restart while the count is <= max_restarts
ShouldRestartLe(n) == restart_counts[n] <= max_restarts

\* "if self.restart_counts[server_name] < self.max_restarts"
ShouldRestart(n) == restart_counts[n] < max_restarts

\* the exit branch: close the handles, del self.processes[server_name]
\* (KeyError ends the thread when the entry is gone), then the restart policy
MonExited ==
    /\ monPc = "exited"
    /\ LET n == Head(monList).name
           p == Head(monList).pid
       IN /\ kids' = [kids EXCEPT ![p].closes = @ + 1]
          /\ IF ~DictHas(processes, n)
             THEN /\ monPc' = "crash"
                  /\ UNCHANGED <<processes, restart_counts, givenUp, monList>>
             ELSE /\ processes' = DictDel(processes, n)
                  /\ IF ShouldRestart(n)
                     THEN /\ restart_counts' = [restart_counts EXCEPT ![n] = @ + 1]
                          /\ monPc' = "delay"
                          /\ UNCHANGED <<givenUp, monList>>
                     ELSE /\ givenUp' = givenUp \cup {n}
                          /\ MonAdvance
                          /\ UNCHANGED restart_counts
    /\ UNCHANGED <<disabled, running, mainPc, startList, stopList, stopSnap, graceful>>

\* after time.sleep(self.restart_delay): look the spec up and start it
MonRelaunch(ok) ==
    /\ monPc = "delay"
    /\ StartProcess(Head(monList).name, "loop", ok)
    /\ MonAdvance
    /\ UNCHANGED <<disabled, running, givenUp, mainPc, startList, stopList,
                   stopSnap, graceful>>

\* after time.sleep(self.check_interval)
MonWake ==
    /\ monPc = "sleep"
    /\ monPc' = "while"
    /\ UNCHANGED <<disabled, processes, restart_counts, running, kids, givenUp,
                   monList, mainPc, startList, stopList, stopSnap, graceful>>

(***************************************************************************)
(* Main thread: the shutdown sequence                                      *)
(***************************************************************************)
\* stop_monitoring: "self.running = False"
StopMonitoring ==
    /\ mainPc = "run"
    /\ running' = FALSE
    /\ mainPc' = "join"
    /\ UNCHANGED <<disabled, processes, restart_counts, kids, givenUp, monPc,
                   monList, startList, stopList, stopSnap, graceful>>

\* the monitor thread has ended
MonitorEnded == monPc \in {"exit", "crash"}

\* the monitor thread is inside one of its two sleeps
MonitorSleeping == monPc \in {"delay", "sleep"}

\* "self.monitor_thread.join(timeout=5)": returns when the thread ended or
\* when the timeout elapsed with the thread still asleep
JoinMayReturn == MonitorEnded \/ MonitorSleeping

JoinReturn ==
    /\ mainPc = "join"
    /\ JoinMayReturn
    /\ mainPc' = "stop_begin"
    /\ UNCHANGED <<disabled, processes, restart_counts, running, kids, givenUp,
                   monPc, monList, startList, stopList, stopSnap, graceful>>

StopNext(rest) == IF rest = <<>> THEN "done" ELSE "stop_sig"

\* stop_processes(graceful): the snapshot list(self.processes.items())
StopProcessesBegin(g) ==
    /\ mainPc = "stop_begin"
    /\ graceful' = g
    /\ stopList' = processes
    /\ stopSnap' = DictPids(processes)
    /\ mainPc' = StopNext(processes)
    /\ UNCHANGED <<disabled, processes, restart_counts, running, kids, givenUp,
                   monPc, monList, startList>>

\* graceful: process.terminate(); otherwise process.kill()
FirstSignal(g) == IF g THEN "term" ELSE "kill"

Signal(k, s) ==
    [k EXCEPT !.sigs = @ \cup {s},
              !.killedLive = @ \/ (s = "kill" /\ k.alive),
              !.alive = @ /\ s # "kill"]

StopSignal ==
    /\ mainPc = "stop_sig"
    /\ LET p == Head(stopList).pid
           s == FirstSignal(graceful)
       IN /\ kids' = [kids EXCEPT ![p] = Signal(@, s)]
          /\ mainPc' = IF s = "term" THEN "stop_wait" ELSE "stop_del"
    /\ UNCHANGED <<disabled, processes, restart_counts, running, givenUp, monPc,
                   monList, startList, stopList, stopSnap, graceful>>

\* process.wait(timeout=10) returns: the child has exited
StopWaitReturn ==
    /\ mainPc = "stop_wait"
    /\ ~kids[Head(stopList).pid].alive
    /\ mainPc' = "stop_del"
    /\ UNCHANGED <<disabled, processes, restart_counts, running, kids, givenUp,
                   monPc, monList, startList, stopList, stopSnap, graceful>>

\* subprocess.TimeoutExpired: the child is still there, process.kill()
StopWaitTimeout ==
    /\ mainPc = "stop_wait"
    /\ kids[Head(stopList).pid].alive
    /\ kids' = [kids EXCEPT ![Head(stopList).pid] = Signal(@, "kill")]
    /\ mainPc' = "stop_del"
    /\ UNCHANGED <<disabled, processes, restart_counts, running, givenUp, monPc,
                   monList, startList, stopList, stopSnap, graceful>>

\* variant: the entry is left in the dict
StopRemoveKeep(d, n) == d

\* "del self.processes[server_name]" (a KeyError is caught and logged)
StopRemove(d, n) == DictDel(d, n)

\* close the handles and remove the entry
StopDel ==
    /\ mainPc = "stop_del"
    /\ kids' = [kids EXCEPT ![Head(stopList).pid].closes = @ + 1]
    /\ processes' = StopRemove(processes, Head(stopList).name)
    /\ stopList' = Tail(stopList)
    /\ mainPc' = StopNext(Tail(stopList))
    /\ UNCHANGED <<disabled, restart_counts, running, givenUp, monPc, monList,
                   startList, stopSnap, graceful>>

(***************************************************************************)
(* HealthCheckServer: probe sweep and /health                              *)
(***************************************************************************)
HThreads == {"h1", "h2"}

\* what urlopen of the probe URL does
ProbeOutcomes == {"200", "non200", "urlerror", "exception"}

\* the entry check_mcp_servers stores for one upstream
ProbeResult(n, outcome) ==
    IF n \in disabled THEN [status |-> "disabled", healthy |-> TRUE]
    ELSE IF outcome = "200" THEN [status |-> "healthy", healthy |-> TRUE]
    ELSE IF outcome \in {"non200", "urlerror"} THEN [status |-> "unhealthy", healthy |-> FALSE]
    ELSE [status |-> "unknown", healthy |-> FALSE]

\* "overall_healthy": False as soon as one enabled upstream's probe fails
OverallHealthy(results) == \A n \in DOMAIN results : results[n].healthy

\* variant: the cache is never taken to be too old
RefreshNeededNever == FALSE

\* "current_time - self.last_check_time > self.check_interval"
RefreshNeeded == stale

\* get_health_status: refresh when the last sweep is older than check_interval
HealthRequest(h) ==
    /\ hpc[h] = "idle"
    /\ hpc' = [hpc EXCEPT ![h] = IF RefreshNeeded THEN "probe" ELSE "build"]
    /\ UNCHANGED <<mcp_servers_status, is_healthy, stale, swept, hres, hoverall,
                   hbody, hcode>>

\* variant: an exception other than URLError ends the loop
LeavesLoopOnException(outcome) == outcome = "exception"

\* a probe outcome that ends the loop over mcpServers: there is none, both
\* except clauses sit inside the loop body and neither raises
LeavesLoop(outcome) == FALSE

RECURSIVE SweepResults(_, _)
\* "results" after the loop has gone through the upstreams in "order"
SweepResults(order, out) ==
    IF order = <<>> THEN <<>>
    ELSE IF Head(order) \notin disabled /\ LeavesLoop(out[Head(order)]) THEN <<>>
    ELSE (Head(order) :> ProbeResult(Head(order), out[Head(order)]))
             @@ SweepResults(Tail(order), out)

\* check_mcp_servers, the loop over mcpServers: out[n] is what the probe of n does
CheckMcpServers(h, out) ==
    /\ hpc[h] = "probe"
    /\ IF config = "none"
       THEN \* "No MCP servers configured": is_healthy = False, return {}
            /\ is_healthy' = FALSE
            /\ hpc' = [hpc EXCEPT ![h] = "build"]
            /\ UNCHANGED <<hres, hoverall>>
       ELSE /\ LET results == SweepResults(ServerOrder, out)
               IN /\ hres' = [hres EXCEPT ![h] = results]
                  /\ hoverall' = [hoverall EXCEPT ![h] = OverallHealthy(results)]
            /\ hpc' = [hpc EXCEPT ![h] = "w_status"]
            /\ UNCHANGED is_healthy
    /\ UNCHANGED <<mcp_servers_status, stale, swept, hbody, hcode>>

\* "self.mcp_servers_status = results"
WriteStatus(h) ==
    /\ hpc[h] = "w_status"
    /\ mcp_servers_status' = hres[h]
    /\ hpc' = [hpc EXCEPT ![h] = "w_healthy"]
    /\ UNCHANGED <<is_healthy, stale, swept, hres, hoverall, hbody, hcode>>

\* "self.is_healthy = overall_healthy"
WriteHealthy(h) ==
    /\ hpc[h] = "w_healthy"
    /\ is_healthy' = hoverall[h]
    /\ hpc' = [hpc EXCEPT ![h] = "w_time"]
    /\ UNCHANGED <<mcp_servers_status, stale, swept, hres, hoverall, hbody, hcode>>

\* "self.last_check_time = time.time()"
WriteTime(h) ==
    /\ hpc[h] = "w_time"
    /\ stale' = FALSE
    /\ swept' = TRUE
    /\ hpc' = [hpc EXCEPT ![h] = "build"]
    /\ UNCHANGED <<mcp_servers_status, is_healthy, hres, hoverall, hbody, hcode>>

\* the body: "status": "healthy" if self.is_healthy else "unhealthy"
BuildBody(h) ==
    /\ hpc[h] = "build"
    /\ hbody' = [hbody EXCEPT ![h] = IF is_healthy THEN "healthy" ELSE "unhealthy"]
    /\ hpc' = [hpc EXCEPT ![h] = "send"]
    /\ UNCHANGED <<mcp_servers_status, is_healthy, stale, swept, hres, hoverall, hcode>>

\* "self.send_response(200 if health_check_server.is_healthy else 503)"
SendHealth(h) ==
    /\ hpc[h] = "send"
    /\ hcode' = [hcode EXCEPT ![h] = IF is_healthy THEN 200 ELSE 503]
    /\ hpc' = [hpc EXCEPT ![h] = "idle"]
    /\ UNCHANGED <<mcp_servers_status, is_healthy, stale, swept, hres, hoverall, hbody>>

\* variant: readiness follows the health flag
ReadinessCodeFromHealth == IF is_healthy THEN 200 ELSE 503

\* /readiness: 200 when "health_check_server.config is not None", else 503
ReadinessCode == IF config # "none" THEN 200 ELSE 503

\* do_GET for /readiness: status and body {"status": "ready" | "not ready"}
Readiness(h) ==
    /\ hpc[h] = "idle"
    /\ hcode' = [hcode EXCEPT ![h] = ReadinessCode]
    /\ hbody' = [hbody EXCEPT ![h] = IF ReadinessCode = 200 THEN "ready" ELSE "not ready"]
    /\ UNCHANGED <<mcp_servers_status, is_healthy, stale, swept, hpc, hres, hoverall>>

\* do_GET for /liveness: 200 and body {"status": "alive"}
Liveness(h) ==
    /\ hpc[h] = "idle"
    /\ hcode' = [hcode EXCEPT ![h] = 200]
    /\ hbody' = [hbody EXCEPT ![h] = "alive"]
    /\ UNCHANGED <<mcp_servers_status, is_healthy, stale, swept, hpc, hres, hoverall>>

\* more than check_interval goes by since the last sweep
Tick ==
    /\ ~stale
    /\ stale' = TRUE
    /\ UNCHANGED <<mcp_servers_status, is_healthy, swept, hpc, hres, hoverall,
                   hbody, hcode>>

\* no handler is between the first and the last store of a sweep
NoSweepInProgress == \A h \in HThreads : hpc[h] \notin {"w_status", "w_healthy", "w_time"}

\* the cached results and the cached flag were stored by one and the same sweep
CacheFromOneSweep ==
    \E h \in HThreads : hres[h] = mcp_servers_status /\ hoverall[h] = is_healthy

HealthStep ==
    \/ \E h \in HThreads : HealthRequest(h)
    \/ \E h \in HThreads : \E out \in [ServerNames -> ProbeOutcomes] : CheckMcpServers(h, out)
    \/ \E h \in HThreads : WriteStatus(h)
    \/ \E h \in HThreads : WriteHealthy(h)
    \/ \E h \in HThreads : WriteTime(h)
    \/ \E h \in HThreads : BuildBody(h)
    \/ \E h \in HThreads : SendHealth(h)
    \/ Tick

InitHealth ==
    /\ mcp_servers_status = <<>>
    /\ is_healthy = TRUE
    /\ stale = TRUE
    /\ swept = FALSE
    /\ hpc = [h \in HThreads |-> "idle"]
    /\ hres = [h \in HThreads |-> <<>>]
    /\ hoverall = [h \in HThreads |-> TRUE]
    /\ hbody = [h \in HThreads |-> "none"]
    /\ hcode = [h \in HThreads |-> 0]

(***************************************************************************)
(* MCP proxy: registry, command driver, HTTP front-end                     *)
(***************************************************************************)
Callers == {"c1", "c2"}

\* "type" of each configured upstream ("command" is the default)
ServerType == [a |-> "command", b |-> "streamable_http"]

\* first path segment of a request: an upstream's name, "zz" (not
\* configured), "status", or nothing at all (the path "/")
PathNames == ServerNames \cup {"zz", "status", ""}

\* two runs of the proxy side by side, alike but for the secret in the config
Runs == {1, 2}

\* values an env entry or a header of the config may hold
Secrets == {"k1", "k2"}

\* request bodies: no JSON, a JSON array, objects without "tool", with an
\* empty "tool", with a tool name
Bodies == {"not-json", "[]", "{arguments:{}}", "{tool:''}",
           "{tool:noop,arguments:{x:1}}"}

\* json.loads(request_body): ok = FALSE is JSONDecodeError
JsonLoads(b) ==
    IF b = "not-json" THEN [ok |-> FALSE, dict |-> FALSE, tool |-> "absent"]
    ELSE IF b = "[]" THEN [ok |-> TRUE, dict |-> FALSE, tool |-> "absent"]
    ELSE IF b = "{arguments:{}}" THEN [ok |-> TRUE, dict |-> TRUE, tool |-> "absent"]
    ELSE IF b = "{tool:''}" THEN [ok |-> TRUE, dict |-> TRUE, tool |-> ""]
    ELSE [ok |-> TRUE, dict |-> TRUE, tool |-> "noop"]

\* request_data.get('arguments', {})
Arguments(b) == IF b = "{tool:noop,arguments:{x:1}}" THEN "{x:1}" ELSE "{}"

\* "not tool_name" for request_data.get('tool')
NoToolName(v) == v.tool \in {"absent", ""}

Requests ==
    [meth : {"POST"}, name : PathNames, body : Bodies]
    \cup [meth : {"GET"}, name : PathNames, body : {"none"}]

NoRequest == [meth |-> "none", name |-> "none", body |-> "none"]

\* a JSON body: msg is the error message or the kind of a 200 body, ecode
\* the "code" member of an error body, about the name put into the message,
\* server / tool / result the members of a tool call's answer, status the
\* /status snapshot of each run
JsonBody(kind) ==
    [msg |-> kind, ecode |-> 0, about |-> "none", server |-> "none",
     tool |-> "none", result |-> 0, status |-> [r \in Runs |-> <<>>]]

NoResponse == [code |-> 0] @@ JsonBody("none")

\* the "id" member of an envelope: f"{server_name}_{tool_name}_{ms}" and
\* f"{server_name}_list_tools_{ms}"
RequestId(n, tag) == [server |-> n, tag |-> tag, ms |-> now]

NoEnvelope ==
    [jsonrpc |-> "none", id |-> [server |-> "none", tag |-> "none", ms |-> 0],
     method |-> "none", params |-> [name |-> "none", arguments |-> "none"]]

\* the "request" dict of _call_*_tool
CallRequest(n, tool_name, arguments) ==
    [jsonrpc |-> "2.0", id |-> RequestId(n, tool_name), method |-> "tools/call",
     params |-> [name |-> tool_name, arguments |-> arguments]]

\* the "request" dict of _list_*_tools: it has no "params"
ListRequest(n) ==
    [jsonrpc |-> "2.0", id |-> RequestId(n, "list_tools"), method |-> "tools/list",
     params |-> [name |-> "absent", arguments |-> "absent"]]

\* per request: call_tool invocations, envelopes written, serial of the own
\* envelope, serial the reply read belongs to, the child was gone when
\* call_tool began, the upstream error raised, the envelope sent, the number
\* of reply lines read
NoCall == [calls |-> 0, sent |-> 0, mine |-> 0, got |-> 0, deadAtCall |-> FALSE,
           upErr |-> "none", request |-> NoEnvelope, reads |-> 0]

\* kinds of line a child writes as a reply
ReplyKinds == {"result", "error", "garbage"}

\* what a POST to a remote upstream (urlopen, timeout=30) does
RemoteOutcomes == {"result", "error", "garbage", "urlerror"}

\* start_servers: register every enabled upstream; the command upstream only
\* when Popen succeeded
StartServers(ok) ==
    /\ proxyPc = "new"
    /\ servers' = [n \in {m \in ServerNames \ disabled :
                            ServerType[m] = "command" => ok} |-> ServerType[n]]
    /\ childAlive' = (("a" \notin disabled) /\ ok)
    /\ proxyPc' = "serving"
    /\ UNCHANGED <<pin, pout, serial, cpc, creq, ccall, cresp, cdone>>

\* a client sends a request; its handler thread starts
Arrive(c, r) ==
    /\ proxyPc = "serving"
    /\ cpc[c] = "idle"
    /\ cdone[c] < MaxReq
    /\ creq' = [creq EXCEPT ![c] = r]
    /\ ccall' = [ccall EXCEPT ![c] = NoCall]
    /\ cresp' = [cresp EXCEPT ![c] = NoResponse]
    /\ cpc' = [cpc EXCEPT ![c] = "route"]
    /\ UNCHANGED <<proxyPc, servers, childAlive, pin, pout, serial, cdone>>

\* _send_json_response(data, status_code)
SendJsonResponse(c, data, status_code) ==
    /\ cresp' = [cresp EXCEPT ![c] = [code |-> status_code] @@ data]
    /\ cpc' = [cpc EXCEPT ![c] = "done"]

\* variant: the body's "code" is 500 whatever the status
ErrorBodyFixedCode(status_code, message, about) ==
    [JsonBody(message) EXCEPT !.ecode = 500, !.about = about]

\* the dict _send_error_response builds: {"error": {"code", "message"}}
ErrorBody(status_code, message, about) ==
    [JsonBody(message) EXCEPT !.ecode = status_code, !.about = about]

\* variant: the message does not name the upstream asked for
SendErrorResponseNoName(c, status_code, message, about) ==
    SendJsonResponse(c, ErrorBody(status_code, message, "none"), status_code)

\* _send_error_response(status_code, message)
SendErrorResponse(c, status_code, message, about) ==
    SendJsonResponse(c, ErrorBody(status_code, message, about), status_code)

\* an answer that names no upstream: a 200 body, or an error
Respond(c, code, msg) ==
    IF code = 200
    THEN SendJsonResponse(c, JsonBody(msg), 200)
    ELSE SendErrorResponse(c, code, msg, "none")

\* get_server_status as run r builds it: the stored config goes out as it is
GetServerStatus(r) ==
    [n \in DOMAIN servers |->
        [type |-> servers[n],
         running |-> IF servers[n] = "command" THEN childAlive ELSE TRUE,
         config |-> [secret |-> secrets[r]]]]

\* where call_tool / list_tools goes for the upstream's type
Driver(n, cmd, remote) == IF servers[n] = "command" THEN cmd ELSE remote

\* do_POST up to the call of call_tool
DoPost(c) ==
    /\ cpc[c] = "route"
    /\ creq[c].meth = "POST"
    /\ LET n == creq[c].name
           v == JsonLoads(creq[c].body)
       IN IF n = ""
          THEN Respond(c, 404, "Not found") /\ UNCHANGED ccall
          ELSE IF n \notin DOMAIN servers
          THEN SendErrorResponse(c, 404, "Server not found", n) /\ UNCHANGED ccall
          ELSE IF ~v.ok
          THEN Respond(c, 400, "Invalid JSON in request body") /\ UNCHANGED ccall
          ELSE IF ~v.dict
          THEN Respond(c, 500, "Error calling tool") /\ UNCHANGED ccall
          ELSE IF NoToolName(v)
          THEN Respond(c, 400, "Missing 'tool' parameter") /\ UNCHANGED ccall
          ELSE /\ cpc' = [cpc EXCEPT ![c] = Driver(n, "write", "remote")]
               /\ ccall' = [ccall EXCEPT ![c].calls = @ + 1,
                                         ![c].deadAtCall =
                                             (servers[n] = "command" /\ ~childAlive)]
               /\ UNCHANGED cresp
    /\ UNCHANGED <<proxyPc, servers, childAlive, pin, pout, serial, creq, cdone>>

\* variant: a write to the pipe of an exited child is accepted silently
PipeBrokenNever == FALSE

\* process.stdin.write / flush raise BrokenPipeError once the child is gone
PipeBroken == ~childAlive

\* the status do_POST answers with for an exception out of call_tool:
\* "except json.JSONDecodeError" comes before "except Exception"
PostErrorCode(err) == IF err = "protocol" THEN 400 ELSE 500

PostErrorMsg(err) ==
    IF err = "protocol" THEN "Invalid JSON in request body" ELSE "Error calling tool"

PostFail(c, err) ==
    /\ Respond(c, PostErrorCode(err), PostErrorMsg(err))
    /\ ccall' = [ccall EXCEPT ![c].upErr = err]

\* _call_command_tool: write the envelope and flush
CallWrite(c) ==
    /\ cpc[c] = "write"
    /\ IF PipeBroken
       THEN /\ PostFail(c, "exited")
            /\ UNCHANGED <<pin, serial>>
       ELSE /\ pin' = Append(pin, [serial |-> serial + 1,
                                     line |-> CallRequest(creq[c].name,
                                                          JsonLoads(creq[c].body).tool,
                                                          Arguments(creq[c].body))])
            /\ serial' = serial + 1
            /\ ccall' = [ccall EXCEPT ![c].sent = @ + 1, ![c].mine = serial + 1,
                                      ![c].request = CallRequest(creq[c].name,
                                                          JsonLoads(creq[c].body).tool,
                                                          Arguments(creq[c].body))]
            /\ cpc' = [cpc EXCEPT ![c] = "read"]
            /\ UNCHANGED cresp
    /\ UNCHANGED <<proxyPc, servers, childAlive, pout, creq, cdone>>

\* readline() returns: a line is there, or the pipe is at end-of-file
ReadReturns == pout # <<>> \/ ~childAlive

\* the upstream error a reply line stands for ("none": a result)
ReplyError(kind) ==
    IF kind = "garbage" THEN "protocol"
    ELSE IF kind = "error" THEN "remote"
    ELSE "none"

\* do_POST's 200 body: {"server", "tool", "result"}
ToolAnswer(n, tool_name, result) ==
    [JsonBody("result") EXCEPT !.server = n, !.tool = tool_name, !.result = result]

\* _call_command_tool: read one line, parse it, look for "error"
CallRead(c) ==
    /\ cpc[c] = "read"
    /\ ReadReturns
    /\ IF pout = <<>>
       THEN /\ PostFail(c, "noreply")
            /\ UNCHANGED pout
       ELSE /\ pout' = Tail(pout)
            /\ IF ReplyError(Head(pout).kind) = "none"
               THEN /\ SendJsonResponse(c, ToolAnswer(creq[c].name,
                                                      JsonLoads(creq[c].body).tool,
                                                      Head(pout).for), 200)
                    /\ ccall' = [ccall EXCEPT ![c].got = Head(pout).for,
                                              ![c].reads = @ + 1]
               ELSE /\ Respond(c, PostErrorCode(ReplyError(Head(pout).kind)),
                               PostErrorMsg(ReplyError(Head(pout).kind)))
                    /\ ccall' = [ccall EXCEPT ![c].got = Head(pout).for,
                                              ![c].reads = @ + 1,
                                              ![c].upErr = ReplyError(Head(pout).kind)]
    /\ UNCHANGED <<proxyPc, servers, childAlive, pin, serial, creq, cdone>>

\* _call_http_tool / _call_sse_tool: one POST
CallRemote(c, out) ==
    /\ cpc[c] = "remote"
    /\ LET request == CallRequest(creq[c].name, JsonLoads(creq[c].body).tool,
                                  Arguments(creq[c].body))
       IN IF out = "result"
          THEN /\ SendJsonResponse(c, ToolAnswer(creq[c].name,
                                                 JsonLoads(creq[c].body).tool, 0), 200)
               /\ ccall' = [ccall EXCEPT ![c].sent = @ + 1, ![c].request = request]
          ELSE /\ Respond(c, PostErrorCode(IF out = "urlerror" THEN "exited"
                                           ELSE ReplyError(out)),
                          PostErrorMsg(IF out = "urlerror" THEN "exited"
                                       ELSE ReplyError(out)))
               /\ ccall' = [ccall EXCEPT ![c].sent = @ + 1, ![c].request = request,
                                         ![c].upErr = IF out = "urlerror" THEN "exited"
                                                      ELSE ReplyError(out)]
    /\ UNCHANGED <<proxyPc, servers, childAlive, pin, pout, serial, creq, cdone>>

\* do_GET /{name} up to the call of list_tools
DoGet(c) ==
    /\ cpc[c] = "route"
    /\ creq[c].meth = "GET"
    /\ LET n == creq[c].name
       IN IF n = ""
          THEN Respond(c, 200, "info")
          ELSE IF n = "status"
          THEN SendJsonResponse(c, [JsonBody("status") EXCEPT
                                       !.status = [r \in Runs |-> GetServerStatus(r)]],
                                200)
          ELSE IF n \notin DOMAIN servers
          THEN SendErrorResponse(c, 404, "Server not found", n)
          ELSE /\ cpc' = [cpc EXCEPT ![c] = Driver(n, "lwrite", "lremote")]
               /\ UNCHANGED cresp
    /\ UNCHANGED <<proxyPc, servers, childAlive, pin, pout, serial, creq, ccall, cdone>>

\* do_GET's 200 body for /{name}: {"server", "tools"}
ToolsAnswer(n) == [JsonBody("tools") EXCEPT !.server = n]

\* _list_command_tools: write the envelope; an exception returns []
ListWrite(c) ==
    /\ cpc[c] = "lwrite"
    /\ IF PipeBroken
       THEN /\ SendJsonResponse(c, ToolsAnswer(creq[c].name), 200)
            /\ ccall' = [ccall EXCEPT ![c].upErr = "exited"]
            /\ UNCHANGED <<pin, serial>>
       ELSE /\ pin' = Append(pin, [serial |-> serial + 1,
                                     line |-> ListRequest(creq[c].name)])
            /\ serial' = serial + 1
            /\ ccall' = [ccall EXCEPT ![c].sent = @ + 1, ![c].mine = serial + 1,
                                      ![c].request = ListRequest(creq[c].name)]
            /\ cpc' = [cpc EXCEPT ![c] = "lread"]
            /\ UNCHANGED cresp
    /\ UNCHANGED <<proxyPc, servers, childAlive, pout, creq, cdone>>

\* _list_command_tools: read one line; an exception returns []
ListRead(c) ==
    /\ cpc[c] = "lread"
    /\ ReadReturns
    /\ SendJsonResponse(c, ToolsAnswer(creq[c].name), 200)
    /\ IF pout = <<>>
       THEN /\ ccall' = [ccall EXCEPT ![c].upErr = "noreply"]
            /\ UNCHANGED pout
       ELSE /\ pout' = Tail(pout)
            /\ ccall' = [ccall EXCEPT ![c].got = Head(pout).for,
                                      ![c].reads = @ + 1,
                                      ![c].upErr = ReplyError(Head(pout).kind)]
    /\ UNCHANGED <<proxyPc, servers, childAlive, pin, serial, creq, cdone>>

\* _list_http_tools / _list_sse_tools: one POST; an exception returns []
ListRemote(c, out) ==
    /\ cpc[c] = "lremote"
    /\ SendJsonResponse(c, ToolsAnswer(creq[c].name), 200)
    /\ ccall' = [ccall EXCEPT ![c].sent = @ + 1,
                              ![c].request = ListRequest(creq[c].name),
                              ![c].upErr = IF out = "urlerror" THEN "exited"
                                           ELSE ReplyError(out)]
    /\ UNCHANGED <<proxyPc, servers, childAlive, pin, pout, serial, creq, cdone>>

\* the response is on the wire; the handler thread ends
Finish(c) ==
    /\ cpc[c] = "done"
    /\ cpc' = [cpc EXCEPT ![c] = "idle"]
    /\ cdone' = [cdone EXCEPT ![c] = @ + 1]
    /\ creq' = [creq EXCEPT ![c] = NoRequest]
    /\ ccall' = [ccall EXCEPT ![c] = NoCall]
    /\ cresp' = [cresp EXCEPT ![c] = NoResponse]
    /\ UNCHANGED <<proxyPc, servers, childAlive, pin, pout, serial>>

\* the child takes one line from its stdin and answers with one line
UpstreamReply(kind) ==
    /\ childAlive
    /\ pin # <<>>
    /\ pin' = Tail(pin)
    /\ pout' = Append(pout, [for |-> Head(pin).serial, kind |-> kind])
    /\ UNCHANGED <<proxyPc, servers, childAlive, serial, cpc, creq, ccall, cresp, cdone>>

\* the child takes one line from its stdin and writes nothing
UpstreamSilent ==
    /\ childAlive
    /\ pin # <<>>
    /\ pin' = Tail(pin)
    /\ UNCHANGED <<proxyPc, servers, childAlive, pout, serial, cpc, creq, ccall,
                   cresp, cdone>>

\* the child exits; what it had not read is lost, what it wrote stays readable
UpstreamExit ==
    /\ childAlive
    /\ childAlive' = FALSE
    /\ pin' = <<>>
    /\ UNCHANGED <<proxyPc, servers, pout, serial, cpc, creq, ccall, cresp, cdone>>

(***************************************************************************)
(* mcp_proxy.py: MCPProxyServer.start and shutdown.  The main thread is a  *)
(* stack of frames; only the top frame runs.  A signal handler runs in the *)
(* main thread, on top of whatever the main thread was doing.              *)
(***************************************************************************)
Frame(fn, pc) == [fn |-> fn, pc |-> pc]

Top == mainStack[Len(mainStack)]

Below == SubSeq(mainStack, 1, Len(mainStack) - 1)

TopAt(fns, pc) == mainStack # <<>> /\ Top.fn \in fns /\ Top.pc = pc

ShutdownFrames == {"signal_handler", "finally"}

GoTo(pc) == mainStack' = Append(Below, Frame(Top.fn, pc))

\* shutdown() returns: a signal handler gives the thread back to the frame
\* beneath it; after the finally block start() returns and the process ends
ShutdownReturns ==
    IF Top.fn = "signal_handler"
    THEN mainStack' = Below /\ UNCHANGED proxyPc
    ELSE mainStack' = <<>> /\ proxyPc' = "exited"

\* start(): ThreadingTCPServer(...), signal.signal(...), serve_forever()
ServeForever ==
    /\ proxyPc = "serving"
    /\ mainStack = <<>>
    /\ ~listening
    /\ listening' = TRUE
    /\ mainStack' = <<Frame("serve_forever", "select")>>
    /\ UNCHANGED <<shutdown_requested, is_shut_down, psigs, sigCount>>
    /\ UNCHANGED <<proxyPc, servers, childAlive, pin, pout, serial, cpc, creq, ccall,
                   cresp, cdone>>

\* SIGINT or SIGTERM is delivered: signal_handler calls self.shutdown()
SignalHandler ==
    /\ mainStack # <<>>
    /\ sigCount < MaxSig
    /\ sigCount' = sigCount + 1
    /\ mainStack' = Append(mainStack, Frame("signal_handler", "check"))
    /\ UNCHANGED <<shutdown_requested, is_shut_down, listening, psigs>>
    /\ UNCHANGED <<proxyPc, servers, childAlive, pin, pout, serial, cpc, creq, ccall,
                   cresp, cdone>>

\* serve_forever is left by an exception; its own finally sets the
\* is_shut_down event, then start()'s finally calls self.shutdown()
ServeForeverRaises ==
    /\ TopAt({"serve_forever"}, "select")
    /\ is_shut_down' = TRUE
    /\ mainStack' = Append(Below, Frame("finally", "check"))
    /\ UNCHANGED <<shutdown_requested, listening, psigs, sigCount>>
    /\ UNCHANGED <<proxyPc, servers, childAlive, pin, pout, serial, cpc, creq, ccall,
                   cresp, cdone>>

\* shutdown(): "if self.shutdown_requested: return", else set it
ShutdownCheck ==
    /\ TopAt(ShutdownFrames, "check")
    /\ IF shutdown_requested
       THEN ShutdownReturns /\ UNCHANGED shutdown_requested
       ELSE shutdown_requested' = TRUE /\ GoTo("httpd") /\ UNCHANGED proxyPc
    /\ UNCHANGED <<is_shut_down, listening, psigs, sigCount>>
    /\ UNCHANGED <<servers, childAlive, pin, pout, serial, cpc, creq, ccall,
                   cresp, cdone>>

\* httpd.shutdown() waits for the is_shut_down event, which only the end
\* of serve_forever sets; then httpd.server_close()
HttpdShutdown ==
    /\ TopAt(ShutdownFrames, "httpd")
    /\ is_shut_down
    /\ listening' = FALSE
    /\ GoTo("stop")
    /\ UNCHANGED <<shutdown_requested, is_shut_down, psigs, sigCount>>
    /\ UNCHANGED <<proxyPc, servers, childAlive, pin, pout, serial, cpc, creq, ccall,
                   cresp, cdone>>

\* stop_servers: process.terminate() for the child, if one was started
StopServersTerminate ==
    /\ TopAt(ShutdownFrames, "stop")
    /\ IF "a" \in DOMAIN servers
       THEN /\ psigs' = (IF childAlive THEN psigs \cup {"TERM"} ELSE psigs)
            /\ GoTo("wait")
            /\ UNCHANGED proxyPc
       ELSE ShutdownReturns /\ UNCHANGED psigs
    /\ UNCHANGED <<shutdown_requested, is_shut_down, listening, sigCount>>
    /\ UNCHANGED <<servers, childAlive, pin, pout, serial, cpc, creq, ccall,
                   cresp, cdone>>

\* process.wait(timeout=10) returns: the child has exited
StopServersWaited ==
    /\ TopAt(ShutdownFrames, "wait")
    /\ ~childAlive
    /\ ShutdownReturns
    /\ UNCHANGED <<shutdown_requested, is_shut_down, listening, psigs, sigCount>>
    /\ UNCHANGED <<servers, childAlive, pin, pout, serial, cpc, creq, ccall,
                   cresp, cdone>>

\* process.wait(timeout=10) raises TimeoutExpired: process.kill()
StopServersKill ==
    /\ TopAt(ShutdownFrames, "wait")
    /\ childAlive
    /\ psigs' = psigs \cup {"KILL"}
    /\ ShutdownReturns
    /\ UNCHANGED <<shutdown_requested, is_shut_down, listening, sigCount>>
    /\ UNCHANGED <<servers, childAlive, pin, pout, serial, cpc, creq, ccall,
                   cresp, cdone>>

\* the child acts on a signal it was sent; it may ignore TERM, never KILL
ChildSignalled(sig) ==
    /\ childAlive
    /\ sig \in psigs
    /\ childAlive' = FALSE
    /\ pin' = <<>>
    /\ UNCHANGED lifeVars
    /\ UNCHANGED <<proxyPc, servers, pout, serial, cpc, creq, ccall, cresp, cdone>>

\* what the main thread itself does
MainThread ==
    \/ ServeForever
    \/ ShutdownCheck
    \/ HttpdShutdown
    \/ StopServersTerminate
    \/ StopServersWaited
    \/ StopServersKill

\* a millisecond goes by
ClockTick ==
    /\ now < MaxClock
    /\ now' = now + 1
    /\ UNCHANGED <<secrets, environ, env_vars, child_env, envPc, lifeVars, cfgVars,
                   extVars>>

\* the steps of one HTTP handler thread
HandlerStep(c) ==
    \/ DoPost(c)
    \/ CallWrite(c)
    \/ CallRead(c)
    \/ \E out \in RemoteOutcomes : CallRemote(c, out)
    \/ DoGet(c)
    \/ ListWrite(c)
    \/ ListRead(c)
    \/ \E out \in RemoteOutcomes : ListRemote(c, out)
    \/ Finish(c)

InitProxy ==
    /\ proxyPc = "new"
    /\ servers = <<>>
    /\ childAlive = FALSE
    /\ pin = <<>>
    /\ pout = <<>>
    /\ serial = 0
    /\ cpc = [c \in Callers |-> "idle"]
    /\ creq = [c \in Callers |-> NoRequest]
    /\ ccall = [c \in Callers |-> NoCall]
    /\ cresp = [c \in Callers |-> NoResponse]
    /\ cdone = [c \in Callers |-> 0]

(***************************************************************************)
(* The environment of a launched child                                     *)
(***************************************************************************)
\* strings are sequences of characters
EnvChars == {"$", "{", "}", "T"}

\* the values an entry of a spec's "env" map may have
EnvValues == UNION {[1..k -> EnvChars] : k \in 0..MaxLen}

\* os.environ: each of the names T and K is unset or set
Environs ==
    UNION {[names -> {<<"p">>, <<"$", "{", "T", "}">>}] :
              names \in SUBSET {<<"T">>, <<"K">>}}

\* value.startswith(prefix)
StartsWith(value, prefix) ==
    Len(value) >= Len(prefix) /\ SubSeq(value, 1, Len(prefix)) = prefix

\* value.endswith(suffix)
EndsWith(value, suffix) ==
    /\ Len(value) >= Len(suffix)
    /\ SubSeq(value, Len(value) - Len(suffix) + 1, Len(value)) = suffix

\* variant: the slice keeps the brace
EnvVarNameFromBrace(value) == SubSeq(value, 2, Len(value) - 1)

\* env_var_name = value[2:-1]
EnvVarName(value) == SubSeq(value, 3, Len(value) - 1)

\* what env[key] is set to for one entry of the spec's env map
EnvEntry(value, os_environ) ==
    IF StartsWith(value, <<"$", "{">>) /\ EndsWith(value, <<"}">>)
    THEN IF EnvVarName(value) \in DOMAIN os_environ
         THEN os_environ[EnvVarName(value)]
         ELSE value
    ELSE value

\* env = os.environ.copy(), then one assignment per entry of env_vars
ComposeEnv(os_environ, entries) ==
    [k \in DOMAIN os_environ \cup DOMAIN entries |->
        IF k \in DOMAIN entries THEN EnvEntry(entries[k], os_environ)
        ELSE os_environ[k]]

\* ProcessMonitor._start_process prepares the env of the child
StartProcessEnv ==
    /\ envPc = "new"
    /\ child_env' = ComposeEnv(environ, env_vars)
    /\ envPc' = "monitor"
    /\ UNCHANGED <<now, secrets, environ, env_vars, lifeVars, cfgVars, extVars>>

\* MCPServerManager._start_command_server prepares the env of the child;
\* str(value) of a string is that string
StartCommandServerEnv ==
    /\ envPc = "new"
    /\ child_env' = ComposeEnv(environ, env_vars)
    /\ envPc' = "proxy"
    /\ UNCHANGED <<now, secrets, environ, env_vars, lifeVars, cfgVars, extVars>>

(***************************************************************************)
(* config_handler.py: JSON documents.  A value has a type t; a string has  *)
(* its characters in s, a number or boolean its value in n, an object its  *)
(* members and an array its items, in order, in kids.                      *)
(***************************************************************************)
Str(cs) == [t |-> "str", s |-> cs, n |-> 0, kids |-> <<>>]

Num(n) == [t |-> "num", s |-> <<>>, n |-> n, kids |-> <<>>]

Bool(b) == [t |-> "bool", s |-> <<>>, n |-> IF b THEN 1 ELSE 0, kids |-> <<>>]

Member(k, v) == [k |-> k, v |-> v]

Obj(members) == [t |-> "obj", s |-> <<>>, n |-> 0, kids |-> members]

Arr(items) ==
    [t |-> "arr", s |-> <<>>, n |-> 0,
     kids |-> [i \in DOMAIN items |-> Member("", items[i])]]

\* the keys of an object
Keys(d) == {d.kids[i].k : i \in DOMAIN d.kids}

\* d[k] for a key the object has
Get(d, k) == d.kids[CHOOSE i \in DOMAIN d.kids : d.kids[i].k = k].v

\* the characters [A-Za-z0-9_] of the documents checked
NameChars == {"A", "B", "x"}

RECURSIVE NameRun(_, _)
\* how many characters of [A-Za-z0-9_]+ s has from position i on
NameRun(s, i) ==
    IF i <= Len(s) /\ s[i] \in NameChars THEN 1 + NameRun(s, i + 1) ELSE 0

\* the group of a match of \${([A-Za-z0-9_]+)} at position i, <<>> if none
TokenAt(s, i) ==
    IF i + 1 <= Len(s) /\ s[i] = "$" /\ s[i + 1] = "{"
    THEN LET r == NameRun(s, i + 2)
         IN IF r > 0 /\ i + 2 + r <= Len(s) /\ s[i + 2 + r] = "}"
            THEN SubSeq(s, i + 2, i + 1 + r)
            ELSE <<>>
    ELSE <<>>

RECURSIVE FindAll(_, _)
\* env_var_pattern.findall(value): the names, left to right, from i on
FindAll(s, i) ==
    IF i > Len(s) THEN <<>>
    ELSE IF TokenAt(s, i) # <<>>
         THEN <<TokenAt(s, i)>> \o FindAll(s, i + Len(TokenAt(s, i)) + 3)
         ELSE FindAll(s, i + 1)

RECURSIVE Replace(_, _, _, _)
\* str.replace(old, new): every occurrence, left to right, from i on
Replace(s, old, new, i) ==
    IF i > Len(s) THEN <<>>
    ELSE IF i + Len(old) - 1 <= Len(s) /\ SubSeq(s, i, i + Len(old) - 1) = old
         THEN new \o Replace(s, old, new, i + Len(old))
         ELSE <<s[i]>> \o Replace(s, old, new, i + 1)

\* f"${{{var_name}}}"
Token(var_name) == <<"$", "{">> \o var_name \o <<"}">>

RECURSIVE SubstituteMatches(_, _, _)
\* "for var_name in matches": each set name is replaced in result in turn
SubstituteMatches(result, matches, env) ==
    IF matches = <<>> THEN result
    ELSE LET var_name == Head(matches)
         IN SubstituteMatches(
                IF var_name \in DOMAIN env
                THEN Replace(result, Token(var_name), env[var_name], 1)
                ELSE result,
                Tail(matches), env)

\* variant: only the first unset name of a string is recorded
MissingInFirstOnly(s, env) ==
    LET unset == {i \in DOMAIN FindAll(s, 1) : FindAll(s, 1)[i] \notin DOMAIN env}
    IN {FindAll(s, 1)[i] : i \in {j \in unset : \A k \in unset : j <= k}}

\* the names one string adds to missing_vars
MissingIn(s, env) ==
    {FindAll(s, 1)[i] : i \in DOMAIN FindAll(s, 1)} \ DOMAIN env

RECURSIVE ProcessValue(_, _)
\* process_value: strings are substituted, objects and arrays walked
ProcessValue(value, env) ==
    IF value.t = "str"
    THEN Str(SubstituteMatches(value.s, FindAll(value.s, 1), env))
    ELSE IF value.t \in {"obj", "arr"}
         THEN [value EXCEPT !.kids =
                  [i \in DOMAIN value.kids |->
                      Member(value.kids[i].k, ProcessValue(value.kids[i].v, env))]]
         ELSE value

RECURSIVE MissingVars(_, _)
\* missing_vars after process_value has walked value
MissingVars(value, env) ==
    IF value.t = "str" THEN MissingIn(value.s, env)
    ELSE UNION {MissingVars(value.kids[i].v, env) : i \in DOMAIN value.kids}

\* what a ConfigHandler method gives back: a document, or a ConfigError
Returned(doc) == [error |-> "none", missing |-> {}, doc |-> doc]

ConfigError(missing) == [error |-> "ConfigError", missing |-> missing, doc |-> Obj(<<>>)]

\* substitute_env_vars(config) under os.environ = env
SubstituteEnvVars(cfg, env) ==
    IF MissingVars(cfg, env) # {}
    THEN ConfigError(MissingVars(cfg, env))
    ELSE Returned(ProcessValue(cfg, env))

\* the strings of the documents checked: up to MaxPieces pieces in a row
Pieces ==
    {<<"$", "{", "A", "}">>, <<"$", "{", "B", "}">>, <<"x">>, <<"$", "{">>, <<"}">>}

RECURSIVE Concats(_)
Concats(k) ==
    IF k = 0 THEN {<<>>}
    ELSE Concats(k - 1) \cup {s \o p : s \in Concats(k - 1), p \in Pieces}

\* what sits beside the string at the top level: a number, or a string
\* inside an array, an object, or an object inside an array
Nested ==
    {Num(1)}
    \cup {Arr(<<Str(s)>>) : s \in Concats(1)}
    \cup {Obj(<<Member("k", Str(s))>>) : s \in Concats(1)}
    \cup {Arr(<<Obj(<<Member("k", Str(s))>>)>>) : s \in Concats(1)}

SubstDocs ==
    {Obj(<<Member("k", Str(s)), Member("m", d)>>) : s \in Concats(MaxPieces), d \in Nested}

\* os.environ: A and B are unset or set, to a plain value or to one that
\* holds a token or the start of one
ConfigEnvValues == {<<>>, <<"x">>, <<"$", "{", "B", "}">>, <<"$", "{">>}

ConfigEnvs ==
    UNION {[names -> ConfigEnvValues] : names \in SUBSET {<<"A">>, <<"B">>}}

\* a caller calls substitute_env_vars on a document
Substitute ==
    /\ fnPc = "new"
    /\ fnResult' = <<SubstituteEnvVars(fnArgs.doc, fnArgs.env)>>
    /\ fnPc' = "called"
    /\ UNCHANGED <<config, fnArgs>>

\* the caller passes the document it got back to substitute_env_vars again
SubstituteAgain ==
    /\ fnPc = "called"
    /\ fnResult[1].error = "none"
    /\ fnResult' = Append(fnResult, SubstituteEnvVars(fnResult[1].doc, fnArgs.env))
    /\ fnPc' = "again"
    /\ UNCHANGED <<config, fnArgs>>

(***************************************************************************)
(* config_handler.py: schemas.  has is the set of keywords the schema      *)
(* object holds; props are the members of "properties" in order; addl,     *)
(* items and dflt hold the value of the keyword as a one-element sequence. *)
(***************************************************************************)
NoSchema ==
    [has |-> {}, type |-> "", required |-> {}, props |-> <<>>, addl |-> <<>>,
     items |-> <<>>, dflt |-> <<>>]

WithType(S, type) == [S EXCEPT !.has = @ \cup {"type"}, !.type = type]

WithDefault(S, d) == [S EXCEPT !.has = @ \cup {"default"}, !.dflt = <<d>>]

WithProperties(S, props) == [S EXCEPT !.has = @ \cup {"properties"}, !.props = props]

WithAdditional(S, A) == [S EXCEPT !.has = @ \cup {"additionalProperties"}, !.addl = <<A>>]

WithRequired(S, names) == [S EXCEPT !.has = @ \cup {"required"}, !.required = names]

WithItems(S, I) == [S EXCEPT !.has = @ \cup {"items"}, !.items = <<I>>]

\* the names under schema["properties"]
PropNames(S) == {S.props[i].k : i \in DOMAIN S.props}

\* result[k] = v
Put(d, k, v) ==
    IF k \in Keys(d)
    THEN [d EXCEPT !.kids = [i \in DOMAIN d.kids |->
                                IF d.kids[i].k = k THEN Member(k, v) ELSE d.kids[i]]]
    ELSE [d EXCEPT !.kids = Append(d.kids, Member(k, v))]

\* "prop_name not in result and 'default' in prop_schema"
DefaultWanted(result, p) == p.k \notin Keys(result) /\ "default" \in p.v.has

RECURSIVE ApplySchemaDefaults(_, _), ApplyProperties(_, _), ApplyAdditional(_, _, _)
\* the loop over schema["properties"]
ApplyProperties(result, props) ==
    IF props = <<>> THEN result
    ELSE LET p == Head(props)
             r1 == IF DefaultWanted(result, p) THEN Put(result, p.k, p.v.dflt[1])
                   ELSE result
             r2 == IF /\ p.k \in Keys(r1)
                      /\ "properties" \in p.v.has
                      /\ Get(r1, p.k).t = "obj"
                   THEN Put(r1, p.k, ApplySchemaDefaults(Get(r1, p.k), p.v))
                   ELSE r1
         IN ApplyProperties(r2, Tail(props))

\* the loop over result.items() for schema["additionalProperties"]
ApplyAdditional(result, schema, i) ==
    IF i > Len(result.kids) THEN result
    ELSE LET m == result.kids[i]
         IN ApplyAdditional(
                IF /\ ("properties" \notin schema.has \/ m.k \notin PropNames(schema))
                   /\ m.v.t = "obj"
                THEN Put(result, m.k, ApplySchemaDefaults(m.v, schema.addl[1]))
                ELSE result,
                schema, i + 1)

\* _apply_schema_defaults(config, schema)
ApplySchemaDefaults(cfg, schema) ==
    LET r1 == IF "properties" \in schema.has THEN ApplyProperties(cfg, schema.props)
              ELSE cfg
    IN IF "additionalProperties" \in schema.has /\ schema.addl # <<>>
       THEN ApplyAdditional(r1, schema, 1)
       ELSE r1

\* the schemas checked: an object schema whose property n has a default
InnerSchema ==
    WithProperties(WithType(NoSchema, "object"),
                   <<Member("n", WithDefault(WithType(NoSchema, "number"), Num(5)))>>)

PlainSchemas ==
    {WithType(NoSchema, "number"), WithDefault(WithType(NoSchema, "number"), Num(7))}

PropSchemas ==
    PlainSchemas
    \cup {InnerSchema,
          WithDefault(InnerSchema, Obj(<<>>)),
          WithAdditional(WithType(NoSchema, "object"), InnerSchema)}

DefaultSchemas ==
    {WithProperties(S, <<Member("p", P), Member("q", Q)>>) :
        S \in {WithType(NoSchema, "object"),
               WithAdditional(WithType(NoSchema, "object"), InnerSchema)},
        P \in PropSchemas, Q \in PlainSchemas}

\* the documents checked: p, q and z are absent or present
DocValues ==
    {Num(1), Obj(<<>>), Obj(<<Member("n", Num(2))>>), Obj(<<Member("a", Obj(<<>>))>>)}

OptMember(k, vs) == {<<>>} \cup {<<Member(k, v)>> : v \in vs}

DefaultDocs ==
    {Obj(p \o q \o z) : p \in OptMember("p", DocValues), q \in OptMember("q", {Num(1)}),
                        z \in OptMember("z", {Num(1), Obj(<<>>)})}

\* a caller calls _apply_schema_defaults
ApplyDefaults ==
    /\ fnPc = "new"
    /\ fnResult' = <<Returned(ApplySchemaDefaults(fnArgs.doc, fnArgs.schema))>>
    /\ fnPc' = "called"
    /\ UNCHANGED <<config, fnArgs>>

\* the caller applies the defaults to the document it got back
ApplyDefaultsAgain ==
    /\ fnPc = "called"
    /\ fnResult' = Append(fnResult, Returned(ApplySchemaDefaults(fnResult[1].doc, fnArgs.schema)))
    /\ fnPc' = "again"
    /\ UNCHANGED <<config, fnArgs>>

(***************************************************************************)
(* config_handler.py: merge_config.  Dicts are objects on a heap, so that  *)
(* a copy, a shared reference and an assignment are what they are in       *)
(* Python: heap[a] holds the members of the dict at address a, and a       *)
(* member whose value is a dict holds a reference to it.                   *)
(***************************************************************************)
Ref(a) == [t |-> "ref", s |-> <<>>, n |-> a, kids |-> <<>>]

RECURSIVE Store(_, _), StoreMembers(_, _, _)
\* json.load: the dicts of document d are put on the heap
Store(heap, d) ==
    IF d.t # "obj" THEN [heap |-> heap, v |-> d]
    ELSE LET st == StoreMembers(heap, d.kids, <<>>)
         IN [heap |-> Append(st.heap, st.members), v |-> Ref(Len(st.heap) + 1)]

StoreMembers(heap, rest, acc) ==
    IF rest = <<>> THEN [heap |-> heap, members |-> acc]
    ELSE LET st == Store(heap, Head(rest).v)
         IN StoreMembers(st.heap, Tail(rest), Append(acc, Member(Head(rest).k, st.v)))

RECURSIVE Load(_, _)
\* the document that value v stands for on the heap
Load(heap, v) ==
    IF v.t = "ref"
    THEN Obj([i \in DOMAIN heap[v.n] |->
                 Member(heap[v.n][i].k, Load(heap, heap[v.n][i].v))])
    ELSE v

\* variant: result is base itself
BaseItself(heap, base) == [heap |-> heap, r |-> base]

\* result = base.copy(): a new dict with the same members
BaseCopy(heap, base) == [heap |-> Append(heap, heap[base]), r |-> Len(heap) + 1]

\* result[key] = value for the dict at address r
SetItem(heap, r, key, value) ==
    [heap EXCEPT ![r] = Put(Obj(heap[r]), key, value).kids]

RECURSIVE DeepMerge(_, _, _), MergeItems(_, _, _, _)
\* "for key, value in override.items()"
MergeItems(heap, r, items, i) ==
    IF i > Len(items) THEN [heap |-> heap, v |-> Ref(r)]
    ELSE LET key == items[i].k
             value == items[i].v
         IN IF /\ key \in Keys(Obj(heap[r]))
               /\ Get(Obj(heap[r]), key).t = "ref"
               /\ value.t = "ref"
            THEN LET sub == DeepMerge(heap, Get(Obj(heap[r]), key).n, value.n)
                 IN MergeItems(SetItem(sub.heap, r, key, sub.v), r, items, i + 1)
            ELSE MergeItems(SetItem(heap, r, key, value), r, items, i + 1)

\* _deep_merge(base, override) for the dicts at these addresses
DeepMerge(heap, base, override) ==
    LET c == BaseCopy(heap, base)
    IN MergeItems(c.heap, c.r, heap[override], 1)

\* the documents merged: p and q are absent or present, dicts nest twice
MergeLeaves == {Obj(<<>>), Obj(<<Member("v", Num(1))>>), Obj(<<Member("w", Num(2))>>)}

MergeValues ==
    {Num(1), Arr(<<Num(1)>>), Arr(<<Num(2)>>), Obj(<<Member("n", Num(1))>>),
     Obj(<<Member("n", Num(2))>>)}
    \cup {Obj(<<Member("e", e)>>) : e \in MergeLeaves}
    \cup {Obj(<<Member("n", Num(1)), Member("e", e)>>) : e \in MergeLeaves}

MergeDocs ==
    {Obj(p \o q) : p \in OptMember("p", MergeValues),
                   q \in OptMember("q", {Num(1), Arr(<<Num(1)>>)})}

\* merge_config(additional_config) on a handler whose config is base;
\* validate_config accepts the merged document or raises
MergeConfig(valid) ==
    /\ fnPc = "new"
    /\ LET b == Store(<<>>, fnArgs.base)
           o == Store(b.heap, fnArgs.override)
           m == DeepMerge(o.heap, b.v.n, o.v.n)
       IN fnResult' = <<[error |-> IF valid THEN "none" ELSE "ConfigError",
                         doc |-> IF valid THEN Load(m.heap, m.v) ELSE Obj(<<>>),
                         self_config |-> Load(m.heap, m.v),
                         base |-> Load(m.heap, b.v),
                         override |-> Load(m.heap, o.v)]>>
    /\ fnPc' = "called"
    /\ UNCHANGED <<config, fnArgs>>

(***************************************************************************)
(* config_handler.py: the validator used when jsonschema is not installed  *)
(***************************************************************************)
\* the isinstance checks for prop_schema["type"]; a Python bool is an int
TypeAgrees(expected_type, prop_value) ==
    /\ expected_type = "object" => prop_value.t = "obj"
    /\ expected_type = "array" => prop_value.t = "arr"
    /\ expected_type = "string" => prop_value.t = "str"
    /\ expected_type = "number" => prop_value.t \in {"num", "bool"}
    /\ expected_type = "boolean" => prop_value.t = "bool"

RECURSIVE BasicValidate(_, _)
\* _basic_validate(instance, schema): TRUE when it returns True, FALSE when
\* it raises ConfigError
BasicValidate(instance, schema) ==
    /\ "required" \in schema.has => schema.required \subseteq Keys(instance)
    /\ "properties" \in schema.has =>
          \A i \in DOMAIN schema.props :
              LET prop_name == schema.props[i].k
                  prop_schema == schema.props[i].v
              IN prop_name \in Keys(instance) =>
                    LET prop_value == Get(instance, prop_name)
                    IN /\ "type" \in prop_schema.has =>
                              TypeAgrees(prop_schema.type, prop_value)
                       /\ (prop_value.t = "obj" /\ "properties" \in prop_schema.has) =>
                              BasicValidate(prop_value, prop_schema)
                       /\ (prop_value.t = "arr" /\ "items" \in prop_schema.has) =>
                              \A j \in DOMAIN prop_value.kids :
                                  (prop_value.kids[j].v.t = "obj"
                                      /\ prop_schema.items # <<>>) =>
                                      BasicValidate(prop_value.kids[j].v,
                                                    prop_schema.items[1])
    /\ ("additionalProperties" \in schema.has /\ schema.addl # <<>>) =>
          \A i \in DOMAIN instance.kids :
              (/\ "properties" \notin schema.has
                     \/ instance.kids[i].k \notin PropNames(schema)
               /\ instance.kids[i].v.t = "obj") =>
                  BasicValidate(instance.kids[i].v, schema.addl[1])

\* the schemas checked: object schemas that require n
RequiresN == WithRequired(WithType(NoSchema, "object"), {"n"})

RequiresNumberN ==
    WithProperties(RequiresN, <<Member("n", WithType(NoSchema, "number"))>>)

ValidatedPropSchemas ==
    {WithType(NoSchema, "number"), WithType(NoSchema, "boolean"),
     WithType(NoSchema, "string"), RequiresN, RequiresNumberN,
     WithItems(WithType(NoSchema, "array"), RequiresN),
     WithAdditional(WithType(NoSchema, "object"), RequiresN)}

ValidatedSchemas ==
    {WithRequired(WithProperties(S, <<Member("p", P)>>), {"p"}) :
        S \in {WithType(NoSchema, "object"),
               WithAdditional(WithType(NoSchema, "object"), RequiresN)},
        P \in ValidatedPropSchemas}

\* the documents checked
ValidatedValues ==
    {Num(1), Bool(TRUE), Str(<<"x">>), Obj(<<>>), Obj(<<Member("n", Num(1))>>),
     Obj(<<Member("n", Str(<<"x">>))>>), Arr(<<Obj(<<>>)>>),
     Arr(<<Obj(<<Member("n", Num(1))>>)>>), Obj(<<Member("a", Obj(<<>>))>>),
     Obj(<<Member("a", Obj(<<Member("n", Num(1))>>))>>)}

ValidatedDocs ==
    {Obj(p \o z) : p \in OptMember("p", ValidatedValues),
                   z \in OptMember("z", {Num(1), Obj(<<>>), Obj(<<Member("n", Num(1))>>)})}

\* validate_config without jsonschema
ValidateConfig ==
    /\ fnPc = "new"
    /\ fnResult' = <<IF BasicValidate(fnArgs.doc, fnArgs.schema)
                     THEN Returned(Bool(TRUE))
                     ELSE ConfigError({})>>
    /\ fnPc' = "called"
    /\ UNCHANGED <<config, fnArgs>>

(***************************************************************************)
(* ProcessMonitor.get_process_status, in a handler thread of /metrics      *)
(***************************************************************************)
\* "for server_name, process_info in self.processes.items()": a view of the
\* live dict, no copy
Items == processes

\* "status = {}" and the iterator over self.processes.items(), which notes
\* the size of the dict
GetProcessStatusBegin ==
    /\ rd.pc = "idle"
    /\ rd' = [pc |-> "iter", used |-> Len(processes), left |-> Len(processes),
              last |-> 0, status |-> <<>>]

\* the iterator's next(): RuntimeError when the dict changed size, the end
\* when no entry follows, RuntimeError or one more item (by interpreter
\* version) when an entry follows after as many items as the dict had.
\* The entries not passed yet are those with a larger pid: the dict keeps
\* insertion order and every insertion here is of a new child
GetProcessStatusNext(raises) ==
    /\ rd.pc = "iter"
    /\ LET d == Items
           after == {i \in DOMAIN d : d[i].pid > rd.last}
           e == d[CHOOSE i \in after : \A j \in after : i <= j]
       IN IF Len(d) # rd.used
          THEN rd' = [rd EXCEPT !.pc = "raised"]
          ELSE IF after = {}
          THEN rd' = [rd EXCEPT !.pc = "returned"]
          ELSE IF rd.left = 0 /\ raises
          THEN rd' = [rd EXCEPT !.pc = "raised"]
          ELSE rd' = [rd EXCEPT !.pc = "body", !.last = e.pid,
                                !.left = IF @ = 0 THEN 0 ELSE @ - 1]

\* the loop body: poll(), ps for a running child, status[server_name] = ...
GetProcessStatusBody ==
    /\ rd.pc = "body"
    /\ LET p == rd.last
           n == kids[p].name
       IN rd' = [rd EXCEPT !.pc = "iter",
                           !.status = Append(SelectSeq(@, LAMBDA s : s.name # n),
                                             [name |-> n, pid |-> p])]

\* the handler thread ends (response sent, or the exception left do_GET);
\* the next /metrics request gets a new thread
GetProcessStatusDone ==
    /\ rd.pc \in {"returned", "raised"}
    /\ rd' = [pc |-> "idle"]

GetProcessStatus ==
    \/ GetProcessStatusBegin
    \/ \E raises \in BOOLEAN : GetProcessStatusNext(raises)
    \/ GetProcessStatusBody
    \/ GetProcessStatusDone

(***************************************************************************)
(* mcp_proxy.py: MCPServerManager.start_servers, one upstream at a time,   *)
(* then the listener of MCPProxyServer.start                               *)
(***************************************************************************)
\* what one entry of mcpServers can be: its "type" (absent is "command"),
\* whether its "command" or "url" is present, its "disabled" flag
UpstreamTypes == {"command", "sse", "streamable_http", "other"}

UpstreamConfigs == [type : UpstreamTypes, has : BOOLEAN, disabled : BOOLEAN]

\* the manager before start(): "self.servers = {}", "self.processes = {}"
NewManager ==
    [pc |-> "new", cfg |-> <<>>, todo |-> <<>>, servers |-> <<>>, processes |-> {},
     spawned |-> {}, tried |-> {}, listening |-> FALSE, handled |-> {}]

\* "mcp_servers = self.config.get("mcpServers", {})" and the for loop
StartServersBegin(cfg) ==
    /\ pstart.pc = "new"
    /\ pstart' = [pstart EXCEPT !.pc = "loop", !.cfg = cfg, !.todo = ServerOrder]

\* variant: an exception out of _start_server leaves start_servers
AfterFailureLeave(todo) == <<>>

\* "except Exception as e: logger.error(...)": the loop goes on
AfterFailure(todo) == Tail(todo)

\* one iteration: skip when disabled, else _start_server.  launch: what
\* Popen does for a command upstream
StartServer(launch) ==
    /\ pstart.pc = "loop"
    /\ pstart.todo # <<>>
    /\ LET n == Head(pstart.todo)
           c == pstart.cfg[n]
       IN IF c.disabled
          THEN pstart' = [pstart EXCEPT !.todo = Tail(@)]
          ELSE IF c.type = "other"
          THEN \* "Unknown server type": logged, nothing raised
               pstart' = [pstart EXCEPT !.todo = Tail(@), !.tried = @ \cup {n}]
          ELSE IF ~c.has
          THEN \* ValueError("No command specified" / "No URL specified")
               pstart' = [pstart EXCEPT !.todo = AfterFailure(@), !.tried = @ \cup {n}]
          ELSE IF c.type # "command"
          THEN pstart' = [pstart EXCEPT
                             !.servers = @ @@ (n :> [type |-> c.type, process |-> FALSE]),
                             !.todo = Tail(@), !.tried = @ \cup {n}]
          ELSE IF ~launch
          THEN \* Popen raises (no such file, not executable)
               pstart' = [pstart EXCEPT !.todo = AfterFailure(@), !.tried = @ \cup {n}]
          ELSE \* "self.servers[server_name] = {..., "process": process, ...}"
               pstart' = [pstart EXCEPT
                             !.servers = @ @@ (n :> [type |-> "command", process |-> TRUE]),
                             !.spawned = @ \cup {n}, !.tried = @ \cup {n},
                             !.pc = "stored"]

\* "self.processes[server_name] = process"
StoreProcess ==
    /\ pstart.pc = "stored"
    /\ pstart' = [pstart EXCEPT !.processes = @ \cup {Head(pstart.todo)},
                                !.todo = Tail(@), !.pc = "loop"]

\* start(): after start_servers() returned, ThreadingTCPServer((host, port), handler)
CreateListener ==
    /\ pstart.pc = "loop"
    /\ pstart.todo = <<>>
    /\ pstart' = [pstart EXCEPT !.pc = "serving", !.listening = TRUE]

\* variant: requests are accepted from the moment the process starts
AcceptingFromBoot == TRUE

\* a request can be accepted once the listening socket exists
Accepting == pstart.listening

\* a handler thread serves a request for /{n}: it looks n up in
\* self.servers and, for a command upstream, writes to server_info["process"]
ServeRequest(n) ==
    /\ Accepting
    /\ n \in DOMAIN pstart.servers
    /\ pstart' = [pstart EXCEPT !.handled =
                      @ \cup {[name |-> n, during |-> pstart.pc,
                               type |-> pstart.servers[n].type,
                               process |-> pstart.servers[n].process,
                               kept |-> n \in pstart.processes]}]

ProxyStartup ==
    \/ \E cfg \in [ServerNames -> UpstreamConfigs] : StartServersBegin(cfg)
    \/ \E launch \in BOOLEAN : StartServer(launch)
    \/ StoreProcess
    \/ CreateListener
    \/ \E n \in ServerNames : ServeRequest(n)

(***************************************************************************)
(* health_check.py: HealthCheckServer.start and shutdown.  The listener    *)
(* runs in its own thread; the main thread starts the supervisor, sleeps   *)
(* until shutdown is requested and then calls shutdown()                   *)
(***************************************************************************)
\* start(): ThreadingTCPServer(...), the signal handlers, the server thread
\* running serve_forever; the supervisor is started after that
HealthServerListen ==
    /\ hlife.pc = "new"
    /\ hlife' = [hlife EXCEPT !.pc = "listening"]

\* shutdown(): after process_monitor.stop_monitoring() and
\* stop_processes(graceful=True) have returned, httpd.shutdown() and
\* httpd.server_close()
HealthServerClose ==
    /\ hlife.pc = "listening"
    /\ mainPc = "done"
    /\ hlife' = [hlife EXCEPT !.pc = "closed"]

\* a /health request is accepted: get_health_status in a handler thread
HealthAsked(h) ==
    /\ hlife.pc = "listening"
    /\ hlife.asked < MaxAsk
    /\ HealthRequest(h)
    /\ hlife' = [hlife EXCEPT !.asked = @ + 1]

\* what a handler thread does once it is in get_health_status
HealthWork ==
    \/ \E h \in HThreads : \E out \in [ServerNames -> ProbeOutcomes] : CheckMcpServers(h, out)
    \/ \E h \in HThreads : WriteStatus(h)
    \/ \E h \in HThreads : WriteHealthy(h)
    \/ \E h \in HThreads : WriteTime(h)
    \/ \E h \in HThreads : BuildBody(h)
    \/ \E h \in HThreads : SendHealth(h)

\* do_GET for /metrics: "for server_name, status in
\* health_check_server.mcp_servers_status.items()", the cache as it is
MetricsReport ==
    /\ hlife.pc = "listening"
    /\ hlife' = [hlife EXCEPT !.reported = IF stale THEN "old" ELSE "fresh"]

(***************************************************************************)
(* config_handler.py: substitute_env_vars() and get_config() on the        *)
(* handler's own configuration, with the dicts on the heap                 *)
(***************************************************************************)
\* "self.config = None"
NoDoc == [t |-> "none", s |-> <<>>, n |-> 0, kids |-> <<>>]

RECURSIVE Reach(_, _)
\* the addresses of the dicts that value v leads to
Reach(heap, v) ==
    IF v.t # "ref" THEN {}
    ELSE {v.n} \cup UNION {Reach(heap, heap[v.n][i].v) : i \in DOMAIN heap[v.n]}

\* the document self.config stands for, None included
Stored(heap, v) == IF v.t = "none" THEN NoDoc ELSE Load(heap, v)

\* json.loads(json.dumps(config)) and then process_value, whose dict
\* comprehension builds every dict anew: the result is made of new objects
SubstituteOnHeap(heap, v, env) ==
    LET copy == Store(heap, Load(heap, v))
        out == SubstituteEnvVars(Load(copy.heap, copy.v), env)
    IN IF out.error # "none"
       THEN [heap |-> copy.heap, out |-> out, v |-> NoDoc]
       ELSE LET st == Store(copy.heap, out.doc)
            IN [heap |-> st.heap, out |-> out, v |-> st.v]

\* variant: get_config keeps what it returns as the configuration
ConfigAfterGetResult(self_config, result) == result

\* get_config assigns nothing after the load: self.config stays
ConfigAfterGet(self_config, result) == self_config

\* what the caller holds after the call: the outcome, self.config as a
\* document, whether result and self.config have a dict in common, and
\* the heap with both
Outcome(heap, out, self_config, result) ==
    [error |-> out.error, missing |-> out.missing, doc |-> out.doc,
     self_config |-> Stored(heap, self_config),
     shared |-> Reach(heap, result) \cap Reach(heap, self_config) # {},
     heap |-> heap, at |-> self_config, result |-> result]

\* substitute_env_vars() with no argument: ConfigError when nothing is loaded
SubstituteStored ==
    /\ fnPc = "new"
    /\ fnArgs.method = "substitute_env_vars"
    /\ LET s == Store(<<>>, fnArgs.stored)
       IN IF fnArgs.stored = NoDoc
          THEN fnResult' = <<Outcome(<<>>, ConfigError({}), NoDoc, NoDoc)>>
          ELSE LET r == SubstituteOnHeap(s.heap, s.v, fnArgs.env)
               IN fnResult' = <<Outcome(r.heap, r.out, s.v, r.v)>>
    /\ fnPc' = "called"
    /\ UNCHANGED <<config, fnArgs>>

\* get_config(): load_config() when nothing is loaded (ConfigError when the
\* file cannot be read), validate_config(), substitute_env_vars()
GetConfig ==
    /\ fnPc = "new"
    /\ fnArgs.method = "get_config"
    /\ LET doc == IF fnArgs.stored = NoDoc THEN fnArgs.file ELSE fnArgs.stored
           s == Store(<<>>, doc)
       IN IF doc = NoDoc
          THEN fnResult' = <<Outcome(<<>>, ConfigError({}), NoDoc, NoDoc)>>
          ELSE IF ~fnArgs.valid
          THEN fnResult' = <<Outcome(s.heap, ConfigError({}), s.v, NoDoc)>>
          ELSE LET r == SubstituteOnHeap(s.heap, s.v, fnArgs.env)
               IN fnResult' = <<Outcome(r.heap, r.out, ConfigAfterGet(s.v, r.v), r.v)>>
    /\ fnPc' = "called"
    /\ UNCHANGED <<config, fnArgs>>

\* the caller writes a key into every dict of the document it got back
CallerEdits ==
    /\ fnPc = "called"
    /\ fnResult[1].error = "none"
    /\ LET r == fnResult[1]
           heap == [a \in DOMAIN r.heap |->
                       IF a \in Reach(r.heap, r.result)
                       THEN Put(Obj(r.heap[a]), "edited", Num(1)).kids
                       ELSE r.heap[a]]
       IN fnResult' = Append(fnResult, Outcome(heap, Returned(Load(heap, r.result)),
                                               r.at, r.result))
    /\ fnPc' = "again"
    /\ UNCHANGED <<config, fnArgs>>

\* the configurations held or read from the file: a string and, beside it,
\* a number, an array or a dict
StoredDocs ==
    {Obj(<<Member("k", Str(s)), Member("m", d)>>) : s \in Concats(1), d \in Nested}

ConfigFiles == {NoDoc, Obj(<<Member("k", Str(<<"x">>)), Member("m", Obj(<<>>))>>)}

(***************************************************************************)
(* process_monitor.py: start_monitoring and stop_monitoring called in any  *)
(* order by one caller, and the loop threads they leave behind             *)
(***************************************************************************)
\* ProcessMonitor.__init__: "self.running = False", "self.monitor_thread = None"
NewMonitoring ==
    [pc |-> "idle", running |-> FALSE, threads |-> <<>>, monitor_thread |-> 0,
     calls |-> 0, last |-> "none"]

\* the loop threads that have not ended
ActiveLoops(a) == {i \in DOMAIN a.threads : a.threads[i] # "ended"}

\* "self.monitor_thread is not None and self.monitor_thread.is_alive()"
MonitorAlive(a) == a.monitor_thread # 0 /\ a.threads[a.monitor_thread] # "ended"

\* start_monitoring: return when the thread is alive, else running = True
\* and a new thread
CallStartMonitoring ==
    /\ api.pc = "idle"
    /\ api.calls < MaxCalls
    /\ IF MonitorAlive(api)
       THEN api' = [api EXCEPT !.calls = @ + 1, !.last = "start"]
       ELSE api' = [api EXCEPT !.calls = @ + 1, !.last = "start", !.running = TRUE,
                               !.threads = Append(@, "while"),
                               !.monitor_thread = Len(api.threads) + 1]

\* stop_monitoring: running = False, then join(timeout=5) if there is a thread
CallStopMonitoring ==
    /\ api.pc = "idle"
    /\ api.calls < MaxCalls
    /\ api' = [api EXCEPT !.calls = @ + 1, !.running = FALSE,
                          !.pc = IF api.monitor_thread # 0 THEN "join" ELSE "idle",
                          !.last = IF api.monitor_thread # 0 THEN @ ELSE "stop"]

\* join returns: the thread has ended, or five seconds went by while it
\* was in time.sleep
CallJoinReturns ==
    /\ api.pc = "join"
    /\ api.threads[api.monitor_thread] \in {"ended", "sleep"}
    /\ api' = [api EXCEPT !.pc = "idle", !.last = "stop"]

\* "while self.running:": one pass over the processes and the sleep, or
\* the end of the thread
LoopWhile(i) ==
    /\ i \in DOMAIN api.threads
    /\ api.threads[i] = "while"
    /\ api' = [api EXCEPT !.threads[i] = IF api.running THEN "sleep" ELSE "ended"]

\* time.sleep(self.check_interval) returns
LoopWake(i) ==
    /\ i \in DOMAIN api.threads
    /\ api.threads[i] = "sleep"
    /\ api' = [api EXCEPT !.threads[i] = "while"]

Monitoring ==
    \/ CallStartMonitoring
    \/ CallStopMonitoring
    \/ CallJoinReturns
    \/ \E i \in 1..MaxCalls : LoopWhile(i)
    \/ \E i \in 1..MaxCalls : LoopWake(i)

(***************************************************************************)
(* Specifications                                                          *)
(***************************************************************************)
InitSup ==
    /\ processes = <<>>
    /\ restart_counts = <<>>
    /\ running = FALSE
    /\ kids = <<>>
    /\ givenUp = {}
    /\ monPc = "off"
    /\ monList = <<>>
    /\ mainPc = "new"
    /\ startList = <<>>
    /\ stopList = <<>>
    /\ stopSnap = {}
    /\ graceful = TRUE

\* the proxy's main thread has not yet entered start()
InitLife ==
    /\ mainStack = <<>>
    /\ shutdown_requested = FALSE
    /\ is_shut_down = FALSE
    /\ listening = FALSE
    /\ psigs = {}
    /\ sigCount = 0

\* no handler reads the process map, nobody has called start_monitoring or
\* stop_monitoring, the health server and the proxy have not started
InitExt ==
    /\ rd = [pc |-> "idle"]
    /\ api = NewMonitoring
    /\ hlife = [pc |-> "new", asked |-> 0, reported |-> "none"]
    /\ pstart = NewManager

\* the health server's config is loaded; no ConfigHandler method is called
InitCfg ==
    /\ config = "loaded"
    /\ fnArgs = <<>>
    /\ fnResult = <<>>
    /\ fnPc = "new"

\* one secret for both runs, nothing launched with an env yet
InitHost ==
    /\ now = 0
    /\ secrets = [r \in Runs |-> "k1"]
    /\ environ = <<>>
    /\ env_vars = <<>>
    /\ child_env = <<>>
    /\ envPc = "new"
    /\ InitLife
    /\ InitExt
    /\ InitCfg

Init ==
    /\ disabled \in {{}, {"b"}}
    /\ InitSup
    /\ InitHealth
    /\ InitProxy
    /\ InitHost

MonitorStep(oks) ==
    \/ MonWhile
    \/ MonPoll
    \/ MonExited
    \/ \E ok \in oks : MonRelaunch(ok)
    \/ MonWake

StartStep(oks) ==
    \/ StartProcessesBegin
    \/ \E ok \in oks : StartProcessesStep(ok)
    \/ StartMonitoring

ShutdownStep ==
    \/ StopMonitoring
    \/ JoinReturn
    \/ \E g \in BOOLEAN : StopProcessesBegin(g)
    \/ StopSignal
    \/ StopWaitReturn
    \/ StopWaitTimeout
    \/ StopDel

\* steps of the supervisor's process; the other processes stand still
SupStart(oks) == StartStep(oks) /\ UNCHANGED healthVars /\ UNCHANGED proxyVars /\ UNCHANGED hostVars

SupMonitor(oks) == MonitorStep(oks) /\ UNCHANGED healthVars /\ UNCHANGED proxyVars /\ UNCHANGED hostVars

SupShutdown == ShutdownStep /\ UNCHANGED healthVars /\ UNCHANGED proxyVars /\ UNCHANGED hostVars

SupChildExit ==
    (\E p \in LivePids : ChildExit(p)) /\ UNCHANGED healthVars /\ UNCHANGED proxyVars /\ UNCHANGED hostVars

\* the supervisor on its own: process_monitor.main
NextSup ==
    \/ SupStart(BOOLEAN)
    \/ SupMonitor(BOOLEAN)
    \/ SupShutdown
    \/ SupChildExit

Spec == Init /\ [][NextSup]_vars

\* the health server while it serves, with the supervisor it started:
\* one enabled and one disabled upstream
InitServing ==
    /\ disabled = {"b"}
    /\ InitSup
    /\ InitHealth
    /\ InitProxy
    /\ InitHost

NextHealth ==
    \/ HealthStep /\ UNCHANGED supVars /\ UNCHANGED proxyVars /\ UNCHANGED hostVars
    \/ SupStart(BOOLEAN)
    \/ SupMonitor(BOOLEAN)
    \/ SupChildExit

SpecHealth == InitServing /\ [][NextHealth]_vars

\* the health server's handler threads alone, both upstreams enabled or one
\* disabled
NextSweep ==
    HealthStep /\ UNCHANGED supVars /\ UNCHANGED proxyVars /\ UNCHANGED hostVars

SpecSweep == Init /\ [][NextSweep]_vars

\* the supervision loop alone, every launch succeeding, no shutdown request
NextRestart ==
    \/ SupStart({TRUE})
    \/ SupMonitor({TRUE})
    \/ SupChildExit

\* threads are scheduled; a child that exits right after launch does exit
SpecRestart ==
    /\ Init
    /\ [][NextRestart]_vars
    /\ WF_vars(SupStart({TRUE}))
    /\ WF_vars(SupMonitor({TRUE}))
    /\ WF_vars(SupChildExit)

\* steps of the proxy's process; the other processes stand still
ProxyHandler(c) ==
    HandlerStep(c) /\ UNCHANGED supVars /\ UNCHANGED healthVars /\ UNCHANGED hostVars

ProxyEnv ==
    /\ \/ \E ok \in BOOLEAN : StartServers(ok)
       \/ \E c \in Callers : \E r \in Requests : Arrive(c, r)
       \/ \E k \in ReplyKinds : UpstreamReply(k)
       \/ UpstreamSilent
       \/ UpstreamExit
    /\ UNCHANGED supVars
    /\ UNCHANGED healthVars
    /\ UNCHANGED hostVars

\* the proxy: mcp_proxy.main
NextProxy ==
    \/ \E c \in Callers : ProxyHandler(c)
    \/ ProxyEnv

SpecProxy == Init /\ [][NextProxy]_vars

\* every handler thread that can take a step is scheduled
SpecProxyFair ==
    /\ Init
    /\ [][NextProxy]_vars
    /\ \A c \in Callers : WF_vars(ProxyHandler(c))

\* the proxy while the clock advances
ProxyClock == ClockTick /\ UNCHANGED supVars /\ UNCHANGED healthVars /\ UNCHANGED proxyVars

NextProxyClock ==
    \/ NextProxy
    \/ ProxyClock

SpecProxyClock == Init /\ [][NextProxyClock]_vars

\* two runs of the proxy in step, their configs differing at most in the
\* secret value: the first run holds "k1", the second any secret
InitTwoRuns ==
    /\ disabled \in {{}, {"b"}}
    /\ InitSup
    /\ InitHealth
    /\ InitProxy
    /\ now = 0
    /\ secrets \in {s \in [Runs -> Secrets] : s[1] = "k1"}
    /\ environ = <<>>
    /\ env_vars = <<>>
    /\ child_env = <<>>
    /\ envPc = "new"
    /\ InitLife
    /\ InitExt
    /\ InitCfg

SpecTwoRuns == InitTwoRuns /\ [][NextProxy]_vars

\* one launch, by the supervisor or by the proxy, for every process
\* environment and every value of the spec's env entry K
InitEnv ==
    /\ disabled = {}
    /\ InitSup
    /\ InitHealth
    /\ InitProxy
    /\ now = 0
    /\ secrets = [r \in Runs |-> "k1"]
    /\ environ \in Environs
    /\ env_vars \in [{<<"K">>} -> EnvValues]
    /\ child_env = <<>>
    /\ envPc = "new"
    /\ InitLife
    /\ InitExt
    /\ InitCfg

NextEnv ==
    \/ StartProcessEnv /\ UNCHANGED supVars /\ UNCHANGED healthVars /\ UNCHANGED proxyVars
    \/ StartCommandServerEnv /\ UNCHANGED supVars /\ UNCHANGED healthVars
                             /\ UNCHANGED proxyVars

SpecEnv == InitEnv /\ [][NextEnv]_vars

\* the health server with its config loaded or not (_load_config clears
\* is_healthy when the file is missing or no JSON)
InitEndpoints ==
    /\ disabled = {"b"}
    /\ InitSup
    /\ InitProxy
    /\ now = 0
    /\ secrets = [r \in Runs |-> "k1"]
    /\ environ = <<>>
    /\ env_vars = <<>>
    /\ child_env = <<>>
    /\ envPc = "new"
    /\ InitLife
    /\ InitExt
    /\ config \in {"loaded", "none"}
    /\ fnArgs = <<>>
    /\ fnResult = <<>>
    /\ fnPc = "new"
    /\ mcp_servers_status = <<>>
    /\ is_healthy = (config = "loaded")
    /\ stale = TRUE
    /\ swept = FALSE
    /\ hpc = [h \in HThreads |-> "idle"]
    /\ hres = [h \in HThreads |-> <<>>]
    /\ hoverall = [h \in HThreads |-> TRUE]
    /\ hbody = [h \in HThreads |-> "none"]
    /\ hcode = [h \in HThreads |-> 0]

EndpointStep ==
    \/ HealthStep
    \/ \E h \in HThreads : Readiness(h)
    \/ \E h \in HThreads : Liveness(h)

NextEndpoints ==
    EndpointStep /\ UNCHANGED supVars /\ UNCHANGED proxyVars /\ UNCHANGED hostVars

SpecEndpoints == InitEndpoints /\ [][NextEndpoints]_vars

\* the proxy from main() to the end of start()
OtherHost == <<now, secrets, environ, env_vars, child_env, envPc, cfgVars, extVars>>

ProxyMain ==
    MainThread /\ UNCHANGED supVars /\ UNCHANGED healthVars /\ UNCHANGED OtherHost

ProxyKilled ==
    ChildSignalled("KILL") /\ UNCHANGED supVars /\ UNCHANGED healthVars /\ UNCHANGED OtherHost

ProxyStopEnv ==
    /\ \/ \E ok \in BOOLEAN : StartServers(ok) /\ UNCHANGED lifeVars
       \/ UpstreamExit /\ UNCHANGED lifeVars
       \/ SignalHandler
       \/ ServeForeverRaises
       \/ ChildSignalled("TERM")
    /\ UNCHANGED supVars
    /\ UNCHANGED healthVars
    /\ UNCHANGED OtherHost

NextProxyStop ==
    \/ ProxyMain
    \/ ProxyKilled
    \/ ProxyStopEnv

\* the main thread runs whenever it can; a killed child dies
SpecProxyStop ==
    /\ Init
    /\ [][NextProxyStop]_vars
    /\ WF_vars(ProxyMain)
    /\ WF_vars(ProxyKilled)

\* a ConfigHandler whose methods are about to be called
InitConfigHandler ==
    /\ disabled = {}
    /\ InitSup
    /\ InitHealth
    /\ InitProxy
    /\ now = 0
    /\ secrets = [r \in Runs |-> "k1"]
    /\ environ = <<>>
    /\ env_vars = <<>>
    /\ child_env = <<>>
    /\ envPc = "new"
    /\ InitLife
    /\ InitExt
    /\ config = "loaded"
    /\ fnResult = <<>>
    /\ fnPc = "new"

\* what no ConfigHandler method touches
NotConfig ==
    <<supVars, healthVars, proxyVars, now, secrets, environ, env_vars, child_env,
      envPc, lifeVars, extVars>>

InitSubst ==
    /\ InitConfigHandler
    /\ fnArgs \in [doc : SubstDocs, env : ConfigEnvs]

NextSubst ==
    \/ Substitute /\ UNCHANGED NotConfig
    \/ SubstituteAgain /\ UNCHANGED NotConfig

SpecSubst == InitSubst /\ [][NextSubst]_vars

InitDefaults ==
    /\ InitConfigHandler
    /\ fnArgs \in [doc : DefaultDocs, schema : DefaultSchemas]

NextDefaults ==
    \/ ApplyDefaults /\ UNCHANGED NotConfig
    \/ ApplyDefaultsAgain /\ UNCHANGED NotConfig

SpecDefaults == InitDefaults /\ [][NextDefaults]_vars

InitMerge ==
    /\ InitConfigHandler
    /\ fnArgs \in [base : MergeDocs, override : MergeDocs]

NextMerge == \E valid \in BOOLEAN : MergeConfig(valid) /\ UNCHANGED NotConfig

SpecMerge == InitMerge /\ [][NextMerge]_vars

InitValidate ==
    /\ InitConfigHandler
    /\ fnArgs \in [doc : ValidatedDocs, schema : ValidatedSchemas]

NextValidate == ValidateConfig /\ UNCHANGED NotConfig

SpecValidate == InitValidate /\ [][NextValidate]_vars

\* the supervisor with one /metrics handler thread at a time reading the
\* process map
MetricsReader ==
    /\ GetProcessStatus
    /\ UNCHANGED <<supVars, healthVars, proxyVars>>
    /\ UNCHANGED <<now, secrets, environ, env_vars, child_env, envPc, lifeVars, cfgVars>>
    /\ UNCHANGED <<api, hlife, pstart>>

NextStatus ==
    \/ SupStart(BOOLEAN)
    \/ SupMonitor(BOOLEAN)
    \/ SupShutdown
    \/ SupChildExit
    \/ MetricsReader

SpecStatus == Init /\ [][NextStatus]_vars

\* the proxy's start-up: the main thread in start_servers and then at the
\* listener, handler threads for the requests that are accepted
NextStartup ==
    /\ ProxyStartup
    /\ UNCHANGED <<supVars, healthVars, proxyVars>>
    /\ UNCHANGED <<now, secrets, environ, env_vars, child_env, envPc, lifeVars, cfgVars>>
    /\ UNCHANGED <<rd, api, hlife>>

SpecStartup == Init /\ [][NextStartup]_vars

\* the health server with its supervisor: health_check.main
HealthListen ==
    /\ HealthServerListen
    /\ UNCHANGED <<supVars, healthVars, proxyVars>>
    /\ UNCHANGED <<now, secrets, environ, env_vars, child_env, envPc, lifeVars, cfgVars>>
    /\ UNCHANGED <<rd, api, pstart>>

HealthClose ==
    /\ HealthServerClose
    /\ UNCHANGED <<supVars, healthVars, proxyVars>>
    /\ UNCHANGED <<now, secrets, environ, env_vars, child_env, envPc, lifeVars, cfgVars>>
    /\ UNCHANGED <<rd, api, pstart>>

\* start_processes and start_monitoring follow the listener
HealthSupStart == hlife.pc # "new" /\ SupStart({TRUE})

\* a /metrics request is accepted while the listener is open; a handler
\* thread that has begun goes on whatever the listener does
HealthMetrics ==
    /\ rd.pc = "idle" => hlife.pc = "listening"
    /\ MetricsReader

HealthTick == Tick /\ UNCHANGED supVars /\ UNCHANGED proxyVars /\ UNCHANGED hostVars

NextHealthServer ==
    \/ HealthListen
    \/ HealthSupStart
    \/ SupMonitor({TRUE})
    \/ SupChildExit
    \/ SupShutdown
    \/ HealthMetrics
    \/ HealthClose

SpecHealthServer == Init /\ [][NextHealthServer]_vars

\* the health server without process monitor when /health is requested
\* MaxAsk times and never again, and /metrics at any time: time passes,
\* every thread that exists is scheduled
HealthAsk ==
    /\ \E h \in HThreads : HealthAsked(h)
    /\ UNCHANGED <<supVars, proxyVars>>
    /\ UNCHANGED <<now, secrets, environ, env_vars, child_env, envPc, lifeVars, cfgVars>>
    /\ UNCHANGED <<rd, api, pstart>>

HealthHandlers == HealthWork /\ UNCHANGED supVars /\ UNCHANGED proxyVars /\ UNCHANGED hostVars

HealthMetricsOnly ==
    /\ MetricsReport
    /\ UNCHANGED <<supVars, healthVars, proxyVars>>
    /\ UNCHANGED <<now, secrets, environ, env_vars, child_env, envPc, lifeVars, cfgVars>>
    /\ UNCHANGED <<rd, api, pstart>>

NextHealthQuiet ==
    \/ HealthListen
    \/ HealthAsk
    \/ HealthHandlers
    \/ HealthMetricsOnly
    \/ HealthTick

SpecHealthQuiet ==
    /\ Init
    /\ [][NextHealthQuiet]_vars
    /\ WF_vars(HealthListen)
    /\ WF_vars(HealthHandlers)
    /\ WF_vars(HealthMetricsOnly)
    /\ WF_vars(HealthTick)

\* one call of substitute_env_vars() or get_config() on a handler that
\* holds a configuration or none, then the caller's use of the result
InitStored ==
    /\ InitConfigHandler
    /\ fnArgs \in [method : {"substitute_env_vars", "get_config"},
                   stored : StoredDocs \cup {NoDoc}, file : ConfigFiles,
                   env : ConfigEnvs, valid : BOOLEAN]

NextStored ==
    \/ SubstituteStored /\ UNCHANGED NotConfig
    \/ GetConfig /\ UNCHANGED NotConfig
    \/ CallerEdits /\ UNCHANGED NotConfig

SpecStored == InitStored /\ [][NextStored]_vars

\* a caller of start_monitoring and stop_monitoring and the loop threads
NextMonitoring ==
    /\ Monitoring
    /\ UNCHANGED <<supVars, healthVars, proxyVars>>
    /\ UNCHANGED <<now, secrets, environ, env_vars, child_env, envPc, lifeVars, cfgVars>>
    /\ UNCHANGED <<rd, hlife, pstart>>

SpecMonitoring == Init /\ [][NextMonitoring]_vars

(***************************************************************************)
(* Properties of the supervisor                                            *)
(***************************************************************************)
\* C2: the restart count of an upstream never decreases, and once the loop
\* has given an upstream up it never launches that upstream again.
C2_RestartCountMonotone ==
    [][ /\ \A n \in DOMAIN restart_counts :
              /\ n \in DOMAIN restart_counts'
              /\ restart_counts'[n] >= restart_counts[n]
        /\ \A n \in givenUp : LoopLaunches(n)' = LoopLaunches(n) ]_vars

\* an upstream was given up at its budget and the loop is still iterating
C2_Witness ==
    /\ \E n \in givenUp : restart_counts[n] = max_restarts /\ LoopLaunches(n) = max_restarts
    /\ running
    /\ monPc = "while"

\* C4: with every launch followed by an exit, the loop brings the count to
\* exactly max_restarts and then gives up; the count never exceeds
\* max_restarts and an upstream is launched at most max_restarts + 1 times.
C4_ReachesBudgetThenGivesUp ==
    /\ [](\A n \in DOMAIN restart_counts : restart_counts[n] <= max_restarts)
    /\ [](\A n \in ServerNames : Launches(n) <= max_restarts + 1)
    /\ [](\A n \in givenUp : restart_counts[n] = max_restarts)
    /\ <>(\A n \in ServerNames \ disabled :
              n \in givenUp /\ restart_counts[n] = max_restarts)

\* every enabled upstream has been given up after max_restarts + 1 launches
C4_Witness ==
    \A n \in ServerNames \ disabled :
        n \in givenUp /\ restart_counts[n] = max_restarts /\ Launches(n) = max_restarts + 1

\* C5: once stop_monitoring and stop_processes have returned, no child the
\* supervisor launched is running or tracked.
C5_NothingRunsAfterShutdown ==
    mainPc = "done" => (LivePids = {} /\ processes = <<>>)

\* C6: when stop_processes returns, every child tracked at the call is out of
\* the map and stopped; graceful: terminate was sent, and kill only to a
\* child that outlived the wait; not graceful: kill and no terminate.
C6_StopSignalsEveryTrackedChild ==
    mainPc = "done" =>
        \A p \in stopSnap :
            /\ p \notin DictPids(processes)
            /\ ~kids[p].alive
            /\ graceful => /\ "term" \in kids[p].sigs
                           /\ ("kill" \in kids[p].sigs) = kids[p].killedLive
            /\ ~graceful => kids[p].sigs = {"kill"}

\* a graceful stop returned after killing a child that ignored terminate
C6_Witness ==
    /\ mainPc = "done"
    /\ graceful
    /\ \E p \in stopSnap : kids[p].sigs = {"term", "kill"} /\ kids[p].killedLive

(***************************************************************************)
(* Properties of the health aggregator                                     *)
(***************************************************************************)
\* C3: after a completed probe sweep, is_healthy holds exactly when every
\* enabled upstream's last probe result is healthy and the supervisor has
\* given no upstream up.
C3_HealthyIffProbesAndSupervisor ==
    (swept /\ NoSweepInProgress /\ CacheFromOneSweep) =>
        (is_healthy <=>
            /\ \A n \in ServerNames \ disabled : mcp_servers_status[n].healthy
            /\ givenUp = {})

(***************************************************************************)
(* Properties of the proxy                                                 *)
(***************************************************************************)
\* C1: the write-one-line-then-read-one-line of concurrent callers on the
\* child's stdio exclude one another, and each caller reads the reply to the
\* envelope it wrote.
C1_StdioSerialized ==
    /\ Cardinality({c \in Callers : cpc[c] \in {"read", "lread"}}) <= 1
    /\ \A c \in Callers : ccall[c].got # 0 => ccall[c].got = ccall[c].mine

\* C7: a callTool that finds the command upstream's child gone answers with
\* an error and has written nothing to a child; a handler at the pipes of an
\* exited child can always go on.
C7_DeadChildFailsFast ==
    \A c \in Callers :
        /\ (cpc[c] = "done" /\ creq[c].meth = "POST" /\ ccall[c].deadAtCall)
               => (cresp[c].code = 500 /\ ccall[c].sent = 0)
        /\ (cpc[c] \in {"write", "read"} /\ ~childAlive) => ENABLED HandlerStep(c)

\* a POST with a tool name met an exited child and was answered 500
C7_Witness ==
    \E c \in Callers :
        /\ cpc[c] = "done"
        /\ creq[c].meth = "POST"
        /\ ccall[c].deadAtCall
        /\ ccall[c].upErr = "exited"
        /\ cresp[c].code = 500

\* C8: every callTool on a command upstream returns to its caller, also when
\* the child is alive and never writes a reply line.
C8_CallReturns ==
    \A c \in Callers : (cpc[c] = "read") ~> (cpc[c] = "done")

\* C9: POST /{name}: 404 for an unknown upstream; for a known one 400
\* "Invalid JSON in request body" for a body that is no JSON and 400
\* "Missing 'tool' parameter" for a parsed body without "tool", nothing being
\* sent upstream in either case; call_tool runs, once, only for a body with a
\* tool name.
C9_PostValidation ==
    \A c \in Callers :
        (cpc[c] = "done" /\ creq[c].meth = "POST") =>
            LET v == JsonLoads(creq[c].body)
                known == creq[c].name \in DOMAIN servers
            IN /\ ~known => cresp[c].code = 404
               /\ (known /\ ~v.ok) =>
                      /\ cresp[c].code = 400
                      /\ cresp[c].msg = "Invalid JSON in request body"
                      /\ ccall[c].sent = 0
               /\ (known /\ v.ok /\ v.tool = "absent") =>
                      /\ cresp[c].code = 400
                      /\ cresp[c].msg = "Missing 'tool' parameter"
                      /\ ccall[c].sent = 0
               /\ ccall[c].calls = IF known /\ v.ok /\ v.tool = "noop" THEN 1 ELSE 0

\* C10: an upstream error raised while a POST with a well-formed body is
\* served is answered with status 500.
C10_UpstreamErrorsAre500 ==
    \A c \in Callers :
        (cpc[c] = "done" /\ creq[c].meth = "POST" /\ ccall[c].upErr # "none")
            => cresp[c].code = 500

\* C11: a request, GET or POST and whatever its body, for a name that is not
\* a registered upstream (not configured, disabled, or not launched) is
\* answered 404 "Server not found: {name}" and no upstream is contacted.
C11_UnknownNameIs404 ==
    \A c \in Callers :
        (cpc[c] = "done" /\ creq[c].name # "" /\ creq[c].name \notin DOMAIN servers)
            => /\ cresp[c].code = 404
               /\ cresp[c].msg = "Server not found"
               /\ cresp[c].about = creq[c].name
               /\ ccall[c].calls = 0
               /\ ccall[c].sent = 0

\* C11, amended: the same for every POST, and for every GET but GET /status,
\* which is the status route and is answered 200.
C11_UnknownNameIs404ExceptStatus ==
    \A c \in Callers :
        (cpc[c] = "done" /\ creq[c].name # "" /\ creq[c].name \notin DOMAIN servers)
            => IF creq[c].meth = "GET" /\ creq[c].name = "status"
               THEN cresp[c].code = 200 /\ cresp[c].msg = "status" /\ ccall[c].sent = 0
               ELSE /\ cresp[c].code = 404
                    /\ cresp[c].msg = "Server not found"
                    /\ cresp[c].about = creq[c].name
                    /\ ccall[c].calls = 0
                    /\ ccall[c].sent = 0

\* a POST with a tool name for the configured upstream whose launch failed
\* was answered 404, while the other client was answered 404 on a GET
C11_Witness ==
    \E c, d \in Callers :
        /\ cpc[c] = "done" /\ cpc[d] = "done"
        /\ creq[c].meth = "POST" /\ creq[c].name = "a" /\ "a" \notin DOMAIN servers
        /\ JsonLoads(creq[c].body).tool = "noop"
        /\ cresp[c].code = 404 /\ cresp[c].about = "a"
        /\ creq[d].meth = "GET" /\ creq[d].name = "zz"
        /\ cresp[d].code = 404 /\ cresp[d].about = "zz"

C13_RequestIdsUnique ==
    \A c, d \in Callers :
        (c # d /\ ccall[c].sent > 0 /\ ccall[d].sent > 0)
            => ccall[c].request.id # ccall[d].request.id

\* C14: a POST with tool T and arguments A for a running command upstream U
\* that replies with a result writes exactly one envelope to the child, with
\* jsonrpc "2.0", method "tools/call", params {name: T, arguments: A} and an
\* id "U_tools/call_<suffix>", reads exactly one reply line, and answers 200
\* with {server: U, tool: T, result: the reply's result}.
C14_CallEnvelopeAndAnswer ==
    \A c \in Callers :
        (/\ cpc[c] = "done"
         /\ creq[c].meth = "POST"
         /\ creq[c].name \in DOMAIN servers
         /\ JsonLoads(creq[c].body).tool = "noop"
         /\ ccall[c].upErr = "none")
            => (servers[creq[c].name] = "command" =>
                   /\ ccall[c].sent = 1
                   /\ ccall[c].request.jsonrpc = "2.0"
                   /\ ccall[c].request.method = "tools/call"
                   /\ ccall[c].request.params =
                          [name |-> "noop", arguments |-> Arguments(creq[c].body)]
                   /\ ccall[c].request.id.server = creq[c].name
                   /\ ccall[c].request.id.tag = "tools/call"
                   /\ ccall[c].reads = 1
                   /\ cresp[c].code = 200
                   /\ cresp[c].server = creq[c].name
                   /\ cresp[c].tool = "noop"
                   /\ cresp[c].result = ccall[c].got)

\* C15: the body of GET /status is the same in two runs whose configs differ
\* only in the values of secrets (env entries, headers).
C15_StatusHidesSecrets ==
    \A c \in Callers :
        (cpc[c] = "done" /\ creq[c].meth = "GET" /\ creq[c].name = "status")
            => \A r1, r2 \in Runs : cresp[c].status[r1] = cresp[c].status[r2]

\* C16: the env of a launched child is the process environment overridden by
\* the spec's env entries; a value "${" NAME "}" becomes the process
\* environment's value of NAME when NAME is set and stays the literal when
\* NAME is unset; every other value is passed as it is.
C16_ChildEnvLayering ==
    envPc # "new" =>
        /\ DOMAIN child_env = DOMAIN environ \cup DOMAIN env_vars
        /\ \A k \in DOMAIN environ \ DOMAIN env_vars : child_env[k] = environ[k]
        /\ \A k \in DOMAIN env_vars :
              LET v == env_vars[k]
                  refs == {name \in EnvValues : v = <<"$", "{">> \o name \o <<"}">>}
              IN IF \E name \in refs : name \in DOMAIN environ
                 THEN \A name \in refs : child_env[k] = environ[name]
                 ELSE child_env[k] = v

\* the proxy launched a child whose K is "${T}" in the spec: T is set in the
\* process environment and K is set there too, to something else
C16_Witness ==
    /\ envPc = "proxy"
    /\ env_vars[<<"K">>] = <<"$", "{", "T", "}">>
    /\ <<"T">> \in DOMAIN environ
    /\ <<"K">> \in DOMAIN environ
    /\ environ[<<"K">>] # environ[<<"T">>]
    /\ child_env[<<"K">>] = environ[<<"T">>]

\* C17: a probe sweep records for each configured upstream "disabled" /
\* healthy when it is disabled, "healthy" / healthy or "unhealthy" / not
\* healthy otherwise, and never another status value.
C17_ProbeStatusValues ==
    \A n \in DOMAIN mcp_servers_status :
        IF n \in disabled
        THEN mcp_servers_status[n] = [status |-> "disabled", healthy |-> TRUE]
        ELSE mcp_servers_status[n] \in {[status |-> "healthy", healthy |-> TRUE],
                                        [status |-> "unhealthy", healthy |-> FALSE]}

C19_RefreshWhenStale ==
    [][ \A h \in HThreads :
          /\ (hpc[h] = "idle" /\ hpc'[h] # "idle") =>
                 /\ hpc'[h] = (IF stale THEN "probe" ELSE "build")
                 /\ UNCHANGED <<mcp_servers_status, is_healthy, stale>>
          /\ (hpc[h] # "build" /\ hpc'[h] = "build") =>
                 \/ hpc[h] = "idle" /\ ~stale /\ swept
                 \/ hpc[h] = "w_time" /\ ~stale' /\ swept'
                       /\ UNCHANGED <<mcp_servers_status, is_healthy>>
          /\ (hpc[h] = "probe" /\ hpc'[h] # "probe") => hpc'[h] = "w_status"
          /\ (hpc[h] = "w_status" /\ hpc'[h] # "w_status") => hpc'[h] = "w_healthy"
          /\ (hpc[h] = "w_healthy" /\ hpc'[h] # "w_healthy") => hpc'[h] = "w_time" ]_vars

\* a handler that never ran a sweep builds its response from the cache the
\* other handler's sweep has just filled
C19_Witness ==
    \E h, g \in HThreads :
        /\ hpc[h] = "build"
        /\ hres[h] = <<>>
        /\ hres[g] = mcp_servers_status
        /\ DOMAIN mcp_servers_status = ServerNames
        /\ swept
        /\ ~stale

\* C20: the HTTP status of a /health response is 200 exactly when its body
\* says "healthy" and 503 exactly when it says "unhealthy", whatever other
\* requests refresh the cache meanwhile.
C20_HealthCodeMatchesBody ==
    \A h \in HThreads :
        (hpc[h] = "idle" /\ hcode[h] # 0) =>
            /\ hcode[h] = 200 <=> hbody[h] = "healthy"
            /\ hcode[h] = 503 <=> hbody[h] = "unhealthy"

\* C21: /readiness answers 200 exactly when the config was loaded at
\* construction and 503 otherwise; /liveness answers 200 in every state;
\* neither runs a probe sweep or changes anything the server keeps.
C21_ReadinessAndLiveness ==
    /\ [](\A h \in HThreads :
             hpc[h] = "idle" =>
                 /\ hbody[h] \in {"ready", "not ready"} =>
                        /\ hcode[h] = (IF config = "loaded" THEN 200 ELSE 503)
                        /\ hbody[h] = "ready" <=> hcode[h] = 200
                 /\ hbody[h] = "alive" => hcode[h] = 200)
    /\ [][ \A h \in HThreads :
              (Readiness(h) \/ Liveness(h)) =>
                  UNCHANGED <<mcp_servers_status, is_healthy, stale, swept, hpc,
                              hres, hoverall>> ]_vars

\* with no config loaded and the health flag down, one handler answered
\* /readiness with 503 and the other /liveness with 200
C21_Witness ==
    \E h, g \in HThreads :
        /\ config = "none"
        /\ ~is_healthy
        /\ hpc[h] = "idle" /\ hbody[h] = "not ready" /\ hcode[h] = 503
        /\ hpc[g] = "idle" /\ hbody[g] = "alive" /\ hcode[g] = 200

\* C22: once a terminate signal has reached the serving proxy, shutdown
\* comes to an end: the listener is closed, no child is left alive and
\* start() has returned.
C22_ShutdownTerminates ==
    (sigCount > 0) ~> (mainStack = <<>> /\ ~listening /\ ~childAlive)

\* the names a document refers to: N such that ${N} occurs in a string of it
CandidateNames == UNION {[1..k -> NameChars] : k \in 1..MaxPieces}

Occurs(t, s) == \E i \in 1..Len(s) : i + Len(t) - 1 <= Len(s) /\ SubSeq(s, i, i + Len(t) - 1) = t

RECURSIVE Strings(_)
Strings(d) ==
    IF d.t = "str" THEN {d.s}
    ELSE UNION {Strings(d.kids[i].v) : i \in DOMAIN d.kids}

Referenced(d) == {nm \in CandidateNames : \E s \in Strings(d) : Occurs(Token(nm), s)}

C26_SubstituteIdempotent ==
    fnPc = "again" => fnResult[2] = fnResult[1]

RECURSIVE Preserved(_, _)
\* every key of o is in r with o's value; objects may have gained keys
Preserved(o, r) ==
    IF o.t = "obj"
    THEN /\ r.t = "obj"
         /\ \A k \in Keys(o) : k \in Keys(r) /\ Preserved(Get(o, k), Get(r, k))
    ELSE r = o

\* the schema that governs member k of an object governed by S, if any
Governing(S, k) ==
    IF "properties" \in S.has /\ k \in PropNames(S)
    THEN <<S.props[CHOOSE i \in DOMAIN S.props : S.props[i].k = k].v>>
    ELSE IF "additionalProperties" \in S.has THEN S.addl ELSE <<>>

RECURSIVE DefaultsAdded(_, _, _)
\* every key that S declares with a default and o lacks is in r, in every
\* object of o that a schema governs
DefaultsAdded(o, r, S) ==
    /\ \A i \in DOMAIN S.props :
          ("default" \in S.props[i].v.has /\ S.props[i].k \notin Keys(o)) =>
              /\ S.props[i].k \in Keys(r)
              /\ Preserved(S.props[i].v.dflt[1], Get(r, S.props[i].k))
    /\ \A k \in Keys(o) :
          (Get(o, k).t = "obj" /\ Governing(S, k) # <<>> /\ k \in Keys(r)
              /\ Get(r, k).t = "obj") =>
              DefaultsAdded(Get(o, k), Get(r, k), Governing(S, k)[1])

\* C24: applying the defaults keeps every key of the input with its value,
\* at any depth; puts the declared default under each key the input lacks;
\* and applied to its own result changes nothing.
C24_DefaultsAddedAndFixedPoint ==
    /\ fnPc \in {"called", "again"} =>
          /\ Preserved(fnArgs.doc, fnResult[1].doc)
          /\ DefaultsAdded(fnArgs.doc, fnResult[1].doc, fnArgs.schema)
    /\ fnPc = "again" => fnResult[2] = fnResult[1]

RECURSIVE Merged(_, _, _)
\* m has the keys of b and of o; a key of o holds o's value, or the merge
\* of both values when both are objects; any other key holds b's value
Merged(b, o, m) ==
    /\ m.t = "obj"
    /\ Keys(m) = Keys(b) \cup Keys(o)
    /\ \A k \in Keys(m) :
          IF k \in Keys(o)
          THEN IF k \in Keys(b) /\ Get(b, k).t = "obj" /\ Get(o, k).t = "obj"
               THEN Merged(Get(b, k), Get(o, k), Get(m, k))
               ELSE Get(m, k) = Get(o, k)
          ELSE Get(m, k) = Get(b, k)

\* C25: the document merge_config gives back is the deep merge of base and
\* override (objects merged key by key at every depth, anything else taken
\* from override, arrays replaced, keys of base alone kept), and the base
\* document is afterwards what it was.
C25_DeepMergeLeavesBase ==
    fnPc = "called" =>
        /\ fnResult[1].base = fnArgs.base
        /\ fnResult[1].error = "none" =>
              Merged(fnArgs.base, fnArgs.override, fnResult[1].doc)

\* objects were merged two levels down, an array was replaced and a key of
\* base alone was kept
C25_Witness ==
    /\ fnPc = "called"
    /\ fnResult[1].error = "none"
    /\ fnArgs.base = Obj(<<Member("p", Obj(<<Member("n", Num(1)),
                                             Member("e", Obj(<<Member("v", Num(1))>>))>>)),
                           Member("q", Arr(<<Num(1)>>))>>)
    /\ fnArgs.override = Obj(<<Member("p", Obj(<<Member("e", Obj(<<Member("w", Num(2))>>))>>))>>)
    /\ Keys(Get(Get(fnResult[1].doc, "p"), "e")) = {"v", "w"}
    /\ Get(Get(fnResult[1].doc, "p"), "n") = Num(1)
    /\ Get(fnResult[1].doc, "q") = Arr(<<Num(1)>>)

\* a value is of the JSON type a schema names
OfType(type, v) ==
    /\ type = "object" => v.t = "obj"
    /\ type = "array" => v.t = "arr"
    /\ type = "string" => v.t = "str"
    /\ type = "number" => v.t = "num"
    /\ type = "boolean" => v.t = "bool"

RECURSIVE Conforms(_, _)
\* v has the declared type, every required key at every depth, and members
\* and items that conform to the schemas that govern them
Conforms(v, S) ==
    /\ "type" \in S.has => OfType(S.type, v)
    /\ v.t = "obj" =>
          /\ "required" \in S.has => S.required \subseteq Keys(v)
          /\ \A k \in Keys(v) :
                Governing(S, k) # <<>> => Conforms(Get(v, k), Governing(S, k)[1])
    /\ (v.t = "arr" /\ "items" \in S.has) =>
          \A j \in DOMAIN v.kids : Conforms(v.kids[j].v, S.items[1])

\* C27: the built-in validator accepts a document only when every key a
\* 'required' list declares is present, at any depth (also beneath
\* additionalProperties and beneath a property whose schema has 'required'
\* and no 'properties'), and every declared type agrees.
C27_AcceptedMeansConforming ==
    fnPc = "called" =>
        (fnResult[1].error = "none" => Conforms(fnArgs.doc, fnArgs.schema))

\* C28: the handles opened for a launch are closed exactly once: never
\* more than once, at once when the launch itself failed, and by the end
\* of the shutdown for every child.
C28_HandlesClosedOnce ==
    \A p \in DOMAIN kids :
        /\ kids[p].closes <= 1
        /\ ~kids[p].started => kids[p].closes = 1
        /\ (mainPc = "done" /\ MonitorEnded) => kids[p].closes = 1

\* the live children launched under name n
LiveOf(n) == {p \in LivePids : kids[p].name = n}

\* the loop has seen the child of n exit and has not yet re-launched it
InBackoff(n) ==
    monPc \in {"exited", "delay"} /\ monList # <<>> /\ Head(monList).name = n

\* the tracked child of n has exited and the loop has yet to poll it
ExitUnseen(n) ==
    \E i \in DOMAIN processes : processes[i].name = n /\ ~kids[processes[i].pid].alive

\* C29: an enabled upstream never has two live children; while the
\* supervisor runs it has exactly one unless it is in restart backoff (or
\* its exit is about to be seen) or given up; every live child is tracked.
C29_OneChildPerUpstream ==
    \A n \in ServerNames \ disabled :
        /\ Cardinality(LiveOf(n)) <= 1
        /\ (mainPc = "run" /\ n \notin givenUp /\ ~InBackoff(n) /\ ~ExitUnseen(n)) =>
               Cardinality(LiveOf(n)) = 1
        /\ mainPc \in {"starting", "run"} => LiveOf(n) \subseteq DictPids(processes)

\* C30: while the supervisor runs, an upstream that has been launched is
\* still under supervision after a failed re-launch: it is tracked, or in
\* restart backoff, or given up, so that the loop comes back to it.
C30_FailedRelaunchStaysSupervised ==
    (mainPc = "run" /\ monPc # "crash") =>
        \A n \in DOMAIN restart_counts :
            DictHas(processes, n) \/ InBackoff(n) \/ n \in givenUp

(***************************************************************************)
(* Properties of get_process_status                                        *)
(***************************************************************************)
\* C31: get_process_status, called from a handler thread while the
\* supervision loop or stop_processes removes and re-inserts entries of the
\* process map, always completes: it never fails because the map changed
\* during the read.
C31_StatusReadCompletes == rd.pc # "raised"

(***************************************************************************)
(* Properties of concurrent probe sweeps                                   *)
(***************************************************************************)
\* C32: once every concurrent probe sweep has finished, the cached state is
\* that of one single sweep: the cached per-upstream results and is_healthy
\* were stored by the same sweep, so is_healthy is the conjunction of the
\* healthy flags of the cached results.
C32_CacheIsOneSweep ==
    (swept /\ NoSweepInProgress) =>
        /\ CacheFromOneSweep
        /\ is_healthy = OverallHealthy(mcp_servers_status)

(***************************************************************************)
(* Properties of listTools                                                 *)
(***************************************************************************)
\* C34: a listTools (GET /{name}) on a command upstream whose child has
\* exited, so that the write to its stdin fails, is answered with an error
\* and not with status 200 and a tool list.
C34_ListOnDeadChildFails ==
    \A c \in Callers :
        (/\ cpc[c] = "done"
         /\ creq[c].meth = "GET"
         /\ creq[c].name \in DOMAIN servers
         /\ servers[creq[c].name] = "command"
         /\ ccall[c].upErr = "exited")
            => cresp[c].code # 200

(***************************************************************************)
(* Properties of the proxy's start-up                                      *)
(***************************************************************************)
\* C33: no request is served before the launch of every enabled upstream
\* has been attempted and its process stored; a handler never observes a
\* registered command upstream without its process.
C33_ServesAfterStartServers ==
    /\ \A h \in pstart.handled :
           /\ h.during = "serving"
           /\ h.type = "command" => (h.process /\ h.kept)
    /\ pstart.listening =>
           /\ pstart.todo = <<>>
           /\ \A n \in ServerNames : ~pstart.cfg[n].disabled => n \in pstart.tried

\* a request for a command upstream has been served
C33_Witness ==
    \E h \in pstart.handled : h.type = "command" /\ h.during = "serving"

\* C39: after start_servers the registry holds exactly the enabled
\* upstreams whose registration or launch succeeded: a disabled upstream is
\* never launched or registered, and a failure to start one upstream
\* (missing command or url, launch error, unknown type) neither registers
\* it nor keeps a later upstream from being started.
C39_RegistryIsEnabledAndStarted ==
    pstart.pc = "serving" =>
        /\ \A n \in ServerNames :
               n \in DOMAIN pstart.servers <=>
                   /\ ~pstart.cfg[n].disabled
                   /\ pstart.cfg[n].has
                   /\ pstart.cfg[n].type # "other"
                   /\ pstart.cfg[n].type = "command" => n \in pstart.spawned
        /\ \A n \in ServerNames :
               pstart.cfg[n].disabled => n \notin pstart.tried \cup pstart.spawned
        /\ \A n \in ServerNames : ~pstart.cfg[n].disabled => n \in pstart.tried
        /\ pstart.processes = pstart.spawned

\* the first upstream failed to start and the second one is registered
C39_Witness ==
    /\ pstart.pc = "serving"
    /\ ServerOrder[1] \in pstart.tried \ DOMAIN pstart.servers
    /\ ServerOrder[2] \in DOMAIN pstart.servers

(***************************************************************************)
(* Properties of the health server's life cycle                            *)
(***************************************************************************)
\* C35: the probe cache is refreshed in the background every checkInterval
\* whether or not requests arrive: with no /health or /status request at
\* all, a sweep still happens again and again, so the cache that /metrics
\* reports is never older than checkInterval for good.
C35_SweepsWithoutRequests == []<>(~stale)

\* C36: shutdown runs in reverse start order: in the proxy and in the
\* health server the listener has stopped accepting before any child is
\* signalled, so no request handler observes a child that shutdown has
\* already stopped.
C36_ListenerStopsBeforeChildren ==
    /\ (\E p \in DOMAIN kids : kids[p].sigs # {}) => hlife.pc # "listening"
    /\ psigs # {} => ~listening
    /\ rd.pc = "body" => kids[rd.last].sigs = {}

(***************************************************************************)
(* Properties of the handler's stored configuration                        *)
(***************************************************************************)
\* C37 as stated: after substitute_env_vars or get_config returns or
\* raises, the stored configuration equals its value before the call, and
\* the returned document shares no mutable part with it.
C37_StoredConfigUnchanged ==
    fnPc # "new" =>
        \A i \in DOMAIN fnResult :
            /\ fnResult[i].self_config = fnArgs.stored
            /\ ~fnResult[i].shared

\* C37, amended: the same for substitute_env_vars, and for get_config on a
\* handler that holds a configuration; get_config on a handler that holds
\* none stores the document read from the file (nothing when that fails),
\* and the returned document shares no dict with what is stored.
C37_StoredUnchangedOnceLoaded ==
    fnPc # "new" =>
        \A i \in DOMAIN fnResult :
            /\ ~fnResult[i].shared
            /\ (fnArgs.stored # NoDoc \/ fnArgs.method = "substitute_env_vars")
                   => fnResult[i].self_config = fnArgs.stored
            /\ (fnArgs.stored = NoDoc /\ fnArgs.method = "get_config")
                   => fnResult[i].self_config = fnArgs.file

\* a stored document with a dict in it was substituted, the caller wrote
\* into every dict of the result, and a call raised with a document stored
C37_Witness ==
    /\ fnPc = "again"
    /\ fnArgs.stored # NoDoc
    /\ \E i \in DOMAIN fnArgs.stored.kids : fnArgs.stored.kids[i].v.t = "obj"
    /\ fnResult[2].doc # fnResult[1].doc
    /\ fnResult[1].doc # fnArgs.stored

\* C38: when merge_config raises ConfigError because the merged document
\* is invalid, the stored configuration is the one held before the call.
C38_FailedMergeKeepsConfig ==
    (fnPc = "called" /\ fnResult[1].error = "ConfigError") =>
        fnResult[1].self_config = fnArgs.base

(***************************************************************************)
(* Properties of start_monitoring and stop_monitoring                      *)
(***************************************************************************)
\* C40: over any sequence of start_monitoring and stop_monitoring calls at
\* most one supervision loop is active at a time, and once a
\* start_monitoring call has returned a loop is active and keeps running
\* (it is alive and running is set) until the next stop_monitoring, also
\* when the call came while a stopped loop had not ended yet.
C40_OneLoopAndActiveAfterStart ==
    /\ Cardinality(ActiveLoops(api)) <= 1
    /\ (api.pc = "idle" /\ api.last = "start") =>
           (ActiveLoops(api) # {} /\ api.running)

====
